---- MODULE Spec2Model ----
(***************************************************************************)
(* Capture window of the Collector note-taking companion (src/src/App.svelte):*)
(* the text buffer, the image records and their preview handles, the drop  *)
(* batches whose persistence calls are in flight, and the submit calls.    *)
(*                                                                         *)
(* JavaScript runs every handler and every promise continuation to         *)
(* completion, so each of them is one action.  What is in flight between   *)
(* two continuations (an invoke, a file read) is state.                    *)
(***************************************************************************)
EXTENDS Integers, Sequences, FiniteSets, TLC

\* Bounds of the model.
MaxEntries == 2
MaxText == 1
MaxSubmits == 2
MaxLen == 2
MaxRefs == 2
MaxNesting == 5
MaxName == 3
MaxY == 3

NL == "\n"

VARIABLES
    content,          \* let content: the buffer text, a sequence of symbols
    uploadedImages,   \* let uploadedImages: the image records, in list order
    isDragging,       \* let isDragging
    dragCounter,      \* let dragCounter
    isLoading,        \* let isLoading
    statusMessage,    \* let statusMessage
    isTauri,          \* let isTauri, set once by onMount
    destroyed,        \* onDestroy has run
    batches,          \* drop batches between their drop and Promise.all
    handles,          \* blob URLs created so far -> times revoked
    submits,          \* append_to_daily_note / save_as_note calls in flight
    nDrops,           \* drop batches so far
    nFiles,           \* dropped entries so far
    nextId,           \* source of the unique record ids
    last,             \* the handler or continuation that ran last
    buf,              \* insertImages on its own: the buffer
    pos,              \* insertImages on its own: currentPosition
    todo,             \* insertImages on its own: records still to insert
    orig,             \* insertImages on its own: the inputs it started from
    appSettings,      \* let appSettings
    keydown,          \* the keydown event handled last and what it matched
    settingsLoaded,   \* onMount: the call of load_settings has settled
    fileName,         \* the extension check on its own: the name it is given
    accepted,         \* the extension check on its own: what each check said
    editorSettings,   \* the settings editor: let settings (its two shortcuts)
    shortcutEvent     \* the settings editor: the keydown its recorder got last

vars == <<content, uploadedImages, isDragging, dragCounter, isLoading,
          statusMessage, isTauri, destroyed, batches, handles, submits,
          nDrops, nFiles, nextId, last, buf, pos, todo, orig, appSettings,
          keydown, settingsLoaded, fileName, accepted,
          editorSettings, shortcutEvent>>

appVars == <<content, uploadedImages, isDragging, dragCounter, isLoading,
             statusMessage, isTauri, destroyed, batches, handles, submits,
             nDrops, nFiles, nextId, last>>

insVars == <<buf, pos, todo, orig>>

keyVars == <<appSettings, keydown, settingsLoaded>>

extVars == <<fileName, accepted, editorSettings, shortcutEvent>>

----------------------------------------------------------------------------
(* Text helpers.                                                           *)

\* String.prototype.endsWith("\n")
endsWithNL(s) == Len(s) > 0 /\ s[Len(s)] = NL

\* String.prototype.endsWith("\n\n")
endsWithNLNL(s) == Len(s) > 1 /\ s[Len(s)] = NL /\ s[Len(s) - 1] = NL

\* String.prototype.substring(0, p) and substring(p), p clamped as JS does
substringTo(s, p) == SubSeq(s, 1, IF p > Len(s) THEN Len(s) ELSE p)
substringFrom(s, p) == SubSeq(s, (IF p > Len(s) THEN Len(s) ELSE p) + 1, Len(s))

\* content.trim() is empty: nothing but white space
isBlank(s) == \A k \in 1..Len(s) : s[k] = NL

RECURSIVE trim(_)
trim(s) ==
    IF Len(s) = 0 THEN s
    ELSE IF s[1] = NL THEN trim(Tail(s))
    ELSE IF s[Len(s)] = NL THEN trim(SubSeq(s, 1, Len(s) - 1))
    ELSE s

\* The markdown reference the persistence backend returns for a file; one
\* symbol of the buffer in the window model.
markdownOf(file) ==
    <<"![[" \o ToString(file[1]) \o "." \o ToString(file[2]) \o "]]">>

----------------------------------------------------------------------------
(* insertImages: the body of validImages.forEach in handleDrop.            *)

\* One iteration of the forEach: st = [content, currentPosition].
insertOneAppendOnly(st, markdown) ==
    LET imageMarkdown == markdown \o <<NL>> IN
    IF st.currentPosition >= Len(st.content)
    THEN LET addBreak == FALSE
             c1 == IF addBreak THEN st.content \o <<NL>> ELSE st.content
             p1 == IF addBreak THEN Len(c1) ELSE st.currentPosition
         IN  [content |-> c1 \o imageMarkdown,
              currentPosition |-> p1 + Len(imageMarkdown)]
    ELSE LET before == substringTo(st.content, st.currentPosition)
             after == substringFrom(st.content, st.currentPosition)
             isAtLineStart == endsWithNL(before) \/ Len(before) = 0
         IN  IF ~isAtLineStart /\ ~endsWithNLNL(before)
             THEN [content |-> before \o <<NL>> \o imageMarkdown \o after,
                   currentPosition |->
                       st.currentPosition + 1 + Len(imageMarkdown)]
             ELSE [content |-> before \o imageMarkdown \o after,
                   currentPosition |->
                       st.currentPosition + Len(imageMarkdown)]

insertOneNoBreak(st, markdown) ==
    LET imageMarkdown == markdown \o <<NL>> IN
    IF st.currentPosition >= Len(st.content)
    THEN LET addBreak == Len(st.content) > 0 /\ ~endsWithNL(st.content)
             c1 == IF addBreak THEN st.content \o <<NL>> ELSE st.content
             p1 == IF addBreak THEN Len(c1) ELSE st.currentPosition
         IN  [content |-> c1 \o imageMarkdown,
              currentPosition |-> p1 + Len(imageMarkdown)]
    ELSE LET before == substringTo(st.content, st.currentPosition)
             after == substringFrom(st.content, st.currentPosition)
             isAtLineStart == endsWithNL(before) \/ Len(before) = 0
         IN  IF FALSE
             THEN [content |-> before \o <<NL>> \o imageMarkdown \o after,
                   currentPosition |->
                       st.currentPosition + 1 + Len(imageMarkdown)]
             ELSE [content |-> before \o imageMarkdown \o after,
                   currentPosition |->
                       st.currentPosition + Len(imageMarkdown)]

insertOneNoAdvance(st, markdown) ==
    LET imageMarkdown == markdown \o <<NL>> IN
    IF st.currentPosition >= Len(st.content)
    THEN LET addBreak == Len(st.content) > 0 /\ ~endsWithNL(st.content)
             c1 == IF addBreak THEN st.content \o <<NL>> ELSE st.content
             p1 == IF addBreak THEN Len(c1) ELSE st.currentPosition
         IN  [content |-> c1 \o imageMarkdown,
              currentPosition |-> p1 + Len(imageMarkdown)]
    ELSE LET before == substringTo(st.content, st.currentPosition)
             after == substringFrom(st.content, st.currentPosition)
             isAtLineStart == endsWithNL(before) \/ Len(before) = 0
         IN  IF ~isAtLineStart /\ ~endsWithNLNL(before)
             THEN [content |-> before \o <<NL>> \o imageMarkdown \o after,
                   currentPosition |-> st.currentPosition]
             ELSE [content |-> before \o imageMarkdown \o after,
                   currentPosition |-> st.currentPosition]

insertOneOverwrite(st, markdown) ==
    LET imageMarkdown == markdown \o <<NL>> IN
    IF st.currentPosition >= Len(st.content)
    THEN LET addBreak == Len(st.content) > 0 /\ ~endsWithNL(st.content)
             c1 == IF addBreak THEN st.content \o <<NL>> ELSE st.content
             p1 == IF addBreak THEN Len(c1) ELSE st.currentPosition
         IN  [content |-> c1 \o imageMarkdown,
              currentPosition |-> p1 + Len(imageMarkdown)]
    ELSE LET before == substringTo(st.content, st.currentPosition)
             after == substringFrom(st.content, st.currentPosition + 1)
             isAtLineStart == endsWithNL(before) \/ Len(before) = 0
         IN  IF ~isAtLineStart /\ ~endsWithNLNL(before)
             THEN [content |-> before \o <<NL>> \o imageMarkdown \o after,
                   currentPosition |->
                       st.currentPosition + 1 + Len(imageMarkdown)]
             ELSE [content |-> before \o imageMarkdown \o after,
                   currentPosition |->
                       st.currentPosition + Len(imageMarkdown)]

insertOne(st, markdown) ==
    LET imageMarkdown == markdown \o <<NL>> IN
    IF st.currentPosition >= Len(st.content)
    THEN LET addBreak == Len(st.content) > 0 /\ ~endsWithNL(st.content)
             c1 == IF addBreak THEN st.content \o <<NL>> ELSE st.content
             p1 == IF addBreak THEN Len(c1) ELSE st.currentPosition
         IN  [content |-> c1 \o imageMarkdown,
              currentPosition |-> p1 + Len(imageMarkdown)]
    ELSE LET before == substringTo(st.content, st.currentPosition)
             after == substringFrom(st.content, st.currentPosition)
             isAtLineStart == endsWithNL(before) \/ Len(before) = 0
         IN  IF ~isAtLineStart /\ ~endsWithNLNL(before)
             THEN [content |-> before \o <<NL>> \o imageMarkdown \o after,
                   currentPosition |->
                       st.currentPosition + 1 + Len(imageMarkdown)]
             ELSE [content |-> before \o imageMarkdown \o after,
                   currentPosition |->
                       st.currentPosition + Len(imageMarkdown)]

RECURSIVE insertImagesRestAtEnd(_, _)
insertImagesRestAtEnd(st, markdowns) ==
    IF markdowns = <<>> THEN st
    ELSE LET one == insertOne(st, Head(markdowns))
         IN  insertImagesRestAtEnd(
                 [one EXCEPT !.currentPosition = Len(one.content)],
                 Tail(markdowns))

\* The whole forEach over the markdown of the valid images, in list order.
RECURSIVE insertImages(_, _)
insertImages(st, markdowns) ==
    IF markdowns = <<>> THEN st
    ELSE insertImages(insertOne(st, Head(markdowns)), Tail(markdowns))

----------------------------------------------------------------------------
(* Drop batches.                                                           *)

\* What a dropped browser file can be: a name with an unsupported extension,
\* an image carrying a filesystem path, an image carrying only its bytes.
BrowserFiles == {"unsupported", "path", "bytes"}
\* What a path of the host's drop event can be.
NativePaths == {"unsupported", "path"}

fileLists(kinds) ==
    UNION {[1..n -> kinds] : n \in 0..(MaxEntries - nFiles)}

browserEntryBytesFirst(d, i, kind) ==
    [file |-> <<d, i>>,
     src |-> kind,
     id |-> 0,
     call |-> IF kind = "unsupported" THEN "none"
              ELSE IF isTauri THEN "save_image_from_bytes"
              ELSE IF kind = "path" THEN "save_image"
              ELSE "none",
     st |-> IF kind = "unsupported" THEN "UnsupportedType"
            ELSE IF kind = "bytes" /\ ~isTauri THEN "NoRuntime"
            ELSE "pending"]

\* files.map(async (file, index) => ...) up to its first await: an
\* unsupported extension and a missing runtime return null at once.  call is
\* the persistence command the callback asks the host for: at once for a
\* file with a path, once the file is read for one without.
browserEntry(d, i, kind) ==
    [file |-> <<d, i>>,
     src |-> kind,
     id |-> 0,
     call |-> IF kind = "unsupported" THEN "none"
              ELSE IF kind = "path" THEN "save_image"
              ELSE IF ~isTauri THEN "none"
              ELSE "save_image_from_bytes",
     st |-> IF kind = "unsupported" THEN "UnsupportedType"
            ELSE IF kind = "bytes" /\ ~isTauri THEN "NoRuntime"
            ELSE "pending"]

\* paths.filter(...) and imagePaths.map(async ...) up to the first await.
nativeEntry(d, i, kind) ==
    [file |-> <<d, i>>,
     src |-> kind,
     id |-> 0,
     call |-> IF kind = "unsupported" THEN "none" ELSE "save_image",
     st |-> IF kind = "unsupported" THEN "UnsupportedType" ELSE "pending"]

\* showStatus as the synchronous part of handleDrop leaves it: the message of
\* the last entry that returned null at once.
RECURSIVE statusAfterDrop(_, _)
statusAfterDrop(entries, old) ==
    IF entries = <<>> THEN old
    ELSE LET e == entries[Len(entries)] IN
         IF e.st = "UnsupportedType" THEN "Nicht unterstuetzt"
         ELSE IF e.st = "NoRuntime" THEN "Please use in Tauri app"
         ELSE statusAfterDrop(SubSeq(entries, 1, Len(entries) - 1), old)

\* The record an entry resolved to (the object the async callback returns).
imageOf(kind, e) ==
    [id |-> e.id,
     file |-> e.file,
     markdown |-> markdownOf(e.file),
     preview |-> IF kind = "browser" THEN "blob" ELSE "asset"]

isOk(e) == e.st = "ok"

RECURSIVE sortById(_)
sortById(s) ==
    IF s = <<>> THEN <<>>
    ELSE LET m == CHOOSE k \in 1..Len(s) :
                      \A j \in 1..Len(s) : s[k].id <= s[j].id
         IN  <<s[m]>> \o
             sortById(SubSeq(s, 1, m - 1) \o SubSeq(s, m + 1, Len(s)))

validImagesByCompletion(b) ==
    sortById(LET ok == SelectSeq(b.entries, isOk)
             IN  [k \in 1..Len(ok) |-> imageOf(b.kind, ok[k])])

validImagesUntilFailure(b) ==
    LET firstBad == {k \in 1..Len(b.entries) : ~isOk(b.entries[k])}
        n == IF firstBad = {} THEN Len(b.entries)
             ELSE (CHOOSE k \in firstBad : \A j \in firstBad : k <= j) - 1
    IN  [k \in 1..n |-> imageOf(b.kind, b.entries[k])]

validImagesAll(b) ==
    [k \in 1..Len(b.entries) |-> imageOf(b.kind, b.entries[k])]

\* results = await Promise.all(promises); results.filter(img => img !== null)
validImages(b) ==
    LET ok == SelectSeq(b.entries, isOk)
    IN  [k \in 1..Len(ok) |-> imageOf(b.kind, ok[k])]

markdowns(imgs) == [k \in 1..Len(imgs) |-> imgs[k].markdown]

\* String.prototype.split(separator): never an empty array.
RECURSIVE split(_, _)
split(str, separator) ==
    LET at == {k \in 1..Len(str) : str[k] = separator} IN
    IF at = {} THEN <<str>>
    ELSE LET k == CHOOSE i \in at : \A j \in at : i <= j
         IN  <<SubSeq(str, 1, k - 1)>> \o
             split(SubSeq(str, k + 1, Len(str)), separator)

\* Array.prototype.pop: the last element
pop(array) == array[Len(array)]

min(a, b) == IF a <= b THEN a ELSE b
max(a, b) == IF a >= b THEN a ELSE b

\* for (i = 0; i < Math.min(estimatedLine, lines.length); i++)
\*     pos += lines[i].length + 1
RECURSIVE lineOffset(_, _)
lineOffset(lines, n) ==
    IF n = 0 THEN 0
    ELSE lineOffset(lines, n - 1) + Len(lines[n]) + 1

estimateUnclamped(c, relativeY, lineHeight) ==
    LET estimatedLine == max(0, relativeY \div lineHeight)
        lines == split(c, NL)
    IN  lineOffset(lines, min(estimatedLine, Len(lines)))

\* The else branch of the selectionStart test: the offset of the line the
\* drop is estimated to be on, at most content.length.
estimate(c, relativeY, lineHeight) ==
    LET estimatedLine == max(0, relativeY \div lineHeight)
        lines == split(c, NL)
    IN  min(lineOffset(lines, min(estimatedLine, Len(lines))), Len(c))

\* insertPosition of handleDrop for the buffer c.  at says what the handler
\* finds: textareaRef set or not, the drop over the text area or not,
\* selectionStart a number or not, that number, and the drop's vertical
\* offset in the text and the line height.
positionFor(c, at) ==
    IF at.textareaRef
    THEN IF at.overTextarea
         THEN IF at.known THEN at.selectionStart
              ELSE estimate(c, at.relativeY, at.lineHeight)
         ELSE Len(c)
    ELSE Len(c)

\* insertPosition in the window: selectionStart of a text area is a number,
\* and the text area is gone once the component is destroyed.
insertPosition(overTextarea, selectionStart) ==
    positionFor(content, [textareaRef |-> ~destroyed,
                          overTextarea |-> overTextarea,
                          known |-> TRUE,
                          selectionStart |-> selectionStart,
                          relativeY |-> 0,
                          lineHeight |-> 20])

allDone(b) == \A k \in 1..Len(b.entries) : b.entries[k].st # "pending"

----------------------------------------------------------------------------
(* Preview handles and the reset.                                          *)

\* uploadedImages.forEach(img => startsWith("blob:") && revokeObjectURL)
revokeAll(imgs, h) ==
    [k \in DOMAIN h |->
        h[k] + Cardinality({j \in 1..Len(imgs) :
                               imgs[j].id = k /\ imgs[j].preview = "blob"})]

\* Every batch in flight when a reset runs is stale from then on.
markStale(bs) == [d \in DOMAIN bs |-> [bs[d] EXCEPT !.stale = TRUE]]

State ==
    [content |-> content, uploadedImages |-> uploadedImages,
     statusMessage |-> statusMessage, isDragging |-> isDragging,
     dragCounter |-> dragCounter, isLoading |-> isLoading,
     handles |-> handles]

resetKeepingImages(s) ==
    [s EXCEPT !.handles = revokeAll(s.uploadedImages, s.handles),
              !.content = <<>>,
              !.statusMessage = "",
              !.isDragging = FALSE,
              !.dragCounter = 0,
              !.isLoading = FALSE]

resetWithoutRevoke(s) ==
    [s EXCEPT !.content = <<>>,
              !.uploadedImages = <<>>,
              !.statusMessage = "",
              !.isDragging = FALSE,
              !.dragCounter = 0,
              !.isLoading = FALSE]

\* The listener of show_capture, as a function of the state it touches.
showCaptureResult(s) ==
    [s EXCEPT !.handles = revokeAll(s.uploadedImages, s.handles),
              !.content = <<>>,
              !.uploadedImages = <<>>,
              !.statusMessage = "",
              !.isDragging = FALSE,
              !.dragCounter = 0,
              !.isLoading = FALSE]

\* The reset after a successful submit and in handleClose: statusMessage is
\* left alone.
submitResetResult(s) ==
    [s EXCEPT !.handles = revokeAll(s.uploadedImages, s.handles),
              !.content = <<>>,
              !.uploadedImages = <<>>,
              !.isDragging = FALSE,
              !.dragCounter = 0,
              !.isLoading = FALSE]

removeImageOrFirst(s, id) ==
    LET hit == {k \in 1..Len(s.uploadedImages) : s.uploadedImages[k].id = id}
        found == hit # {} \/ s.uploadedImages # <<>>
        image == IF hit # {}
                 THEN s.uploadedImages[CHOOSE k \in hit : \A j \in hit : k <= j]
                 ELSE s.uploadedImages[1]
        keep(img) == img.id # (IF found THEN image.id ELSE id)
    IN  [s EXCEPT !.handles = IF found /\ image.preview = "blob"
                              THEN [s.handles EXCEPT ![image.id] = @ + 1]
                              ELSE s.handles,
                  !.uploadedImages = SelectSeq(s.uploadedImages, keep)]

removeImageRevokeAll(s, id) ==
    LET hit == {k \in 1..Len(s.uploadedImages) : s.uploadedImages[k].id = id}
        found == hit # {}
        keep(img) == img.id # id
    IN  [s EXCEPT !.handles = IF found
                              THEN revokeAll(s.uploadedImages, s.handles)
                              ELSE s.handles,
                  !.uploadedImages = SelectSeq(s.uploadedImages, keep)]

\* removeImage(id) as a function of the state it touches: find, revoke the
\* blob URL of what was found, filter.
removeImage(s, id) ==
    LET hit == {k \in 1..Len(s.uploadedImages) : s.uploadedImages[k].id = id}
        found == hit # {}
        image == s.uploadedImages[CHOOSE k \in hit : \A j \in hit : k <= j]
        keep(img) == img.id # id
    IN  [s EXCEPT !.handles = IF found /\ image.preview = "blob"
                              THEN [s.handles EXCEPT ![image.id] = @ + 1]
                              ELSE s.handles,
                  !.uploadedImages = SelectSeq(s.uploadedImages, keep)]

apply(s) ==
    /\ content' = s.content
    /\ uploadedImages' = s.uploadedImages
    /\ statusMessage' = s.statusMessage
    /\ isDragging' = s.isDragging
    /\ dragCounter' = s.dragCounter
    /\ isLoading' = s.isLoading
    /\ handles' = s.handles

----------------------------------------------------------------------------
(* The window: handlers and continuations.                                 *)

Commands == {"append_to_daily_note", "save_as_note"}

\* The fields of appSettings the model keeps: two of the numeric ones and the
\* two shortcuts.  A shortcut string is the sequence of its "+"-separated
\* parts, trimmed; the empty string is the empty sequence.
Fields == {"font_size", "window_brightness", "save_to_daily_shortcut",
           "save_as_note_shortcut"}

\* let appSettings = {...}
defaultSettings ==
    [font_size |-> 15,
     window_brightness |-> 0,
     save_to_daily_shortcut |-> <<"Cmd", "Enter">>,
     save_as_note_shortcut |-> <<"Cmd", "Shift", "Enter">>]

\* No keydown has been handled yet.
noKeydown == [handled |-> FALSE]

\* let settings = { ...defaultSettings } of the settings editor: the two
\* shortcuts the window matches key events against.
editorDefaults ==
    [save_to_daily_shortcut |-> defaultSettings.save_to_daily_shortcut,
     save_as_note_shortcut |-> defaultSettings.save_as_note_shortcut]

\* The recorder of the settings editor has had no keydown yet.
noShortcutEvent == [handled |-> FALSE]

inFlight == submits["append_to_daily_note"] + submits["save_as_note"]

\* What ran last; for the continuation of a batch, d is the batch and results
\* the array Promise.all gave it; for show_capture, again says that the
\* listener ran right after itself; requests are the submit and window
\* commands the step asked the host for (also those it put on a timer); for
\* insert_capture_text, payload is the event's payload.
noPayload == [type |-> "undefined", text |-> <<>>]

did(op) == [op |-> op, d |-> 0, results |-> <<>>, again |-> FALSE,
            requests |-> <<>>, payload |-> noPayload]

Init ==
    /\ content = <<>>
    /\ uploadedImages = <<>>
    /\ isDragging = FALSE
    /\ dragCounter = 0
    /\ isLoading = FALSE
    /\ statusMessage = ""
    /\ isTauri \in BOOLEAN
    /\ destroyed = FALSE
    /\ batches = <<>>
    /\ handles = <<>>
    /\ submits = [c \in Commands |-> 0]
    /\ nDrops = 0
    /\ nFiles = 0
    /\ nextId = 1
    /\ last = did("mount")
    /\ buf = <<>>
    /\ pos = 0
    /\ todo = <<>>
    /\ orig = [content |-> <<>>, position |-> 0, markdowns |-> <<>>]
    /\ appSettings = defaultSettings
    /\ keydown = noKeydown
    /\ settingsLoaded = FALSE
    /\ fileName = <<>>
    /\ accepted = <<>>
    /\ editorSettings = editorDefaults
    /\ shortcutEvent = noShortcutEvent

\* The user types into the text area (bind:value); it is disabled while
\* isLoading.
TypeText ==
    /\ ~destroyed
    /\ ~isLoading
    /\ Cardinality({k \in 1..Len(content) : content[k] = "x"}) < MaxText
    /\ content' = content \o <<"x">>
    /\ last' = did("input")
    /\ UNCHANGED <<uploadedImages, isDragging, dragCounter, isLoading,
                   statusMessage, isTauri, destroyed, batches, handles,
                   submits, nDrops, nFiles, nextId>>
    /\ UNCHANGED insVars
    /\ UNCHANGED keyVars
    /\ UNCHANGED extVars

\* setTimeout(() => (statusMessage = ""), 2000) of showStatus
ClearStatus ==
    /\ statusMessage # ""
    /\ statusMessage' = ""
    /\ last' = did("statusTimeout")
    /\ UNCHANGED <<content, uploadedImages, isDragging, dragCounter,
                   isLoading, isTauri, destroyed, batches, handles, submits,
                   nDrops, nFiles, nextId>>
    /\ UNCHANGED insVars
    /\ UNCHANGED keyVars
    /\ UNCHANGED extVars

\* validImages.forEach(img => content += img.markdown + "\n")
RECURSIVE appendMarkdowns(_, _)
appendMarkdowns(c, mds) ==
    IF mds = <<>> THEN c
    ELSE appendMarkdowns(c \o Head(mds) \o <<NL>>, Tail(mds))

\* The array await Promise.all(promises) gives: per entry its outcome.
resultsOf(b) == [k \in 1..Len(b.entries) |-> b.entries[k].st]

\* handleDrop after await Promise.all.  The continuation runs in the task
\* that settles the last promise of the batch.
BrowserBatchDone(d, b) ==
    /\ LET imgs == validImages(b) IN
       IF Len(imgs) > 0
       THEN \E overTextarea \in BOOLEAN, selectionStart \in 0..Len(content) :
              LET st == insertImages(
                            [content |-> content,
                             currentPosition |->
                                 insertPosition(overTextarea, selectionStart)],
                            markdowns(imgs))
              IN  /\ content' = st.content
                  /\ uploadedImages' = uploadedImages \o imgs
       ELSE UNCHANGED <<content, uploadedImages>>
    /\ last' = [did("batchDone") EXCEPT !.d = d, !.results = resultsOf(b)]

NativeBatchDoneAtCursor(d, b) ==
    /\ LET imgs == validImages(b) IN
       IF Len(imgs) > 0
       THEN \E selectionStart \in 0..Len(content) :
              /\ uploadedImages' = uploadedImages \o imgs
              /\ content' = insertImages(
                                [content |-> content,
                                 currentPosition |-> selectionStart],
                                markdowns(imgs)).content
       ELSE UNCHANGED <<content, uploadedImages>>
    /\ last' = [did("nativeBatchDone") EXCEPT !.d = d,
                                              !.results = resultsOf(b)]

\* handleTauriFileDrop after await Promise.all.
NativeBatchDone(d, b) ==
    /\ LET imgs == validImages(b)
           c1 == IF Len(content) > 0 /\ ~endsWithNL(content)
                 THEN content \o <<NL>> ELSE content
       IN  IF Len(imgs) > 0
           THEN /\ uploadedImages' = uploadedImages \o imgs
                /\ content' = appendMarkdowns(c1, markdowns(imgs))
           ELSE UNCHANGED <<content, uploadedImages>>
    /\ last' = [did("nativeBatchDone") EXCEPT !.d = d,
                                              !.results = resultsOf(b)]

\* A batch after one of its promises settled: it stays in flight while
\* another promise is pending, else Promise.all resolves and the handler
\* goes on.
settled(d, b, op) ==
    IF allDone(b)
    THEN /\ IF b.kind = "browser"
            THEN BrowserBatchDone(d, b) ELSE NativeBatchDone(d, b)
         /\ batches' = [e \in DOMAIN batches \ {d} |-> batches[e]]
    ELSE /\ batches' = (d :> b) @@ batches
         /\ last' = did(op)
         /\ UNCHANGED <<content, uploadedImages>>

\* handleDrop up to await Promise.all, reached from globalDrop.
BrowserDrop ==
    /\ ~destroyed
    /\ \E hasDataTransfer \in BOOLEAN, files \in fileLists(BrowserFiles) :
         LET d == nDrops + 1
             entries == [i \in 1..Len(files) |-> browserEntry(d, i, files[i])]
         IN  /\ isDragging' = FALSE
             /\ dragCounter' = 0
             /\ IF ~hasDataTransfer
                THEN /\ files = <<>>
                     /\ statusMessage' = "Error: dataTransfer not available"
                     /\ last' = did("drop")
                     /\ UNCHANGED <<content, uploadedImages, batches, nDrops,
                                    nFiles>>
                ELSE IF Len(files) = 0
                THEN /\ statusMessage' = "No files found"
                     /\ last' = did("drop")
                     /\ UNCHANGED <<content, uploadedImages, batches, nDrops,
                                    nFiles>>
                ELSE /\ statusMessage' = statusAfterDrop(entries, statusMessage)
                     /\ settled(d, [kind |-> "browser", entries |-> entries,
                                    stale |-> FALSE], "drop")
                     /\ nDrops' = d
                     /\ nFiles' = nFiles + Len(files)
    /\ UNCHANGED <<isLoading, isTauri, destroyed, handles, submits, nextId>>
    /\ UNCHANGED insVars
    /\ UNCHANGED keyVars
    /\ UNCHANGED extVars

\* handleDragDropEvent with payload.type = "drop", and handleTauriFileDrop up
\* to await Promise.all.
NativeDrop ==
    /\ isTauri
    /\ ~destroyed
    /\ \E paths \in fileLists(NativePaths) :
         LET d == nDrops + 1
             entries == [i \in 1..Len(paths) |-> nativeEntry(d, i, paths[i])]
             b == [kind |-> "native", entries |-> entries, stale |-> FALSE]
         IN  /\ isDragging' = FALSE
             /\ dragCounter' = 0
             /\ IF Len(paths) = 0
                THEN /\ statusMessage' = "No files found"
                     /\ last' = did("nativeDrop")
                     /\ UNCHANGED <<content, uploadedImages, batches, nDrops,
                                    nFiles>>
                ELSE /\ statusMessage' =
                            IF allDone(b)
                            THEN "No supported image files found"
                            ELSE statusMessage
                     /\ settled(d, b, "nativeDrop")
                     /\ nDrops' = d
                     /\ nFiles' = nFiles + Len(paths)
    /\ UNCHANGED <<isLoading, isTauri, destroyed, handles, submits, nextId>>
    /\ UNCHANGED insVars
    /\ UNCHANGED keyVars
    /\ UNCHANGED extVars

\* One async callback of files.map / imagePaths.map runs from its await to
\* its return: the persistence call succeeded and the record is built
\* (URL.createObjectURL in handleDrop, convertFileSrc in handleTauriFileDrop).
EntryResolves(d, i) ==
    /\ batches[d].entries[i].st = "pending"
    /\ isTauri
    /\ settled(d, [batches[d] EXCEPT !.entries[i].st = "ok",
                                     !.entries[i].id = nextId],
               "entryResolved")
    /\ nextId' = nextId + 1
    /\ handles' = IF batches[d].kind = "browser"
                  THEN handles @@ (nextId :> 0)
                  ELSE handles
    /\ UNCHANGED <<isDragging, dragCounter, isLoading, statusMessage, isTauri,
                   destroyed, submits, nDrops, nFiles>>
    /\ UNCHANGED insVars
    /\ UNCHANGED keyVars
    /\ UNCHANGED extVars

\* The callback ends in its catch: the file could not be read or encoded, or
\* the persistence call rejected (it always does without the host runtime).
EntryFails(d, i) ==
    /\ batches[d].entries[i].st = "pending"
    /\ settled(d, [batches[d] EXCEPT !.entries[i].st = "Error"],
               "entryFailed")
    /\ statusMessage' = "Error"
    /\ UNCHANGED <<isDragging, dragCounter, isLoading, isTauri, destroyed,
                   handles, submits, nDrops, nFiles, nextId>>
    /\ UNCHANGED insVars
    /\ UNCHANGED keyVars
    /\ UNCHANGED extVars

\* removeImage(id), from the remove button of a record of the gallery.
RemoveImage(id) ==
    /\ ~destroyed
    /\ \E k \in 1..Len(uploadedImages) : uploadedImages[k].id = id
    /\ LET hit == {k \in 1..Len(uploadedImages) : uploadedImages[k].id = id}
           image == uploadedImages[CHOOSE k \in hit : \A j \in hit : k <= j]
           keep(img) == img.id # id
       IN  /\ handles' = IF image.preview = "blob"
                         THEN [handles EXCEPT ![image.id] = @ + 1]
                         ELSE handles
           /\ uploadedImages' = SelectSeq(uploadedImages, keep)
    /\ last' = did("removeImage")
    /\ UNCHANGED <<content, isDragging, dragCounter, isLoading, statusMessage,
                   isTauri, destroyed, batches, submits, nDrops, nFiles,
                   nextId>>
    /\ UNCHANGED insVars
    /\ UNCHANGED keyVars
    /\ UNCHANGED extVars

\* The listener of show_capture (registered only under the host runtime,
\* removed by onDestroy).
ShowCapture ==
    /\ isTauri
    /\ ~destroyed
    /\ apply(showCaptureResult(State))
    /\ batches' = markStale(batches)
    /\ last' = [did("show_capture") EXCEPT !.again = (last.op = "show_capture")]
    /\ UNCHANGED <<isTauri, destroyed, submits, nDrops, nFiles, nextId>>
    /\ UNCHANGED insVars
    /\ UNCHANGED keyVars
    /\ UNCHANGED extVars

\* The listener of insert_capture_text (registered only under the host
\* runtime; onDestroy does not remove it): a non-blank payload replaces the
\* buffer.
InsertCaptureTextClearingImages(payload) ==
    /\ isTauri
    /\ LET text == IF payload.type = "string" THEN payload.text ELSE <<>>
       IN  IF isBlank(text)
           THEN UNCHANGED <<content, uploadedImages, handles>>
           ELSE /\ content' = text
                /\ uploadedImages' = <<>>
                /\ handles' = revokeAll(uploadedImages, handles)
    /\ last' = [did("insert_capture_text") EXCEPT !.payload = payload]
    /\ UNCHANGED <<isDragging, dragCounter, isLoading,
                   statusMessage, isTauri, destroyed, batches,
                   submits, nDrops, nFiles, nextId>>
    /\ UNCHANGED insVars
    /\ UNCHANGED keyVars
    /\ UNCHANGED extVars

\* The listener with the payload the host sends: text is
\* typeof event.payload === "string" ? event.payload : "", and a text that
\* trims to nothing returns at once.
InsertCaptureTextOf(payload) ==
    /\ isTauri
    /\ LET text == IF payload.type = "string" THEN payload.text ELSE <<>>
       IN  IF isBlank(text)
           THEN UNCHANGED content
           ELSE content' = text
    /\ last' = [did("insert_capture_text") EXCEPT !.payload = payload]
    /\ UNCHANGED <<uploadedImages, isDragging, dragCounter, isLoading,
                   statusMessage, isTauri, destroyed, batches, handles,
                   submits, nDrops, nFiles, nextId>>
    /\ UNCHANGED insVars
    /\ UNCHANGED keyVars
    /\ UNCHANGED extVars

\* The host sending the captured text "t".
InsertCaptureText ==
    InsertCaptureTextOf([type |-> "string", text |-> <<"t">>])

\* handleAppendToDaily up to its await.
handleAppendToDaily ==
    /\ IF isBlank(content)
       THEN /\ statusMessage' = "Nothing to append"
            /\ last' = did("appendToDaily")
            /\ UNCHANGED <<isLoading, submits>>
       ELSE /\ ~isLoading
            /\ inFlight < MaxSubmits
            /\ isLoading' = TRUE
            /\ submits' = [submits EXCEPT !["append_to_daily_note"] = @ + 1]
            /\ last' = [did("appendToDaily") EXCEPT
                            !.requests = <<"append_to_daily_note">>]
            /\ UNCHANGED statusMessage
    /\ UNCHANGED <<content, uploadedImages, isDragging, dragCounter, isTauri,
                   destroyed, batches, handles, nDrops, nFiles, nextId>>
    /\ UNCHANGED insVars

\* The save-to-daily shortcut.
AppendToDaily ==
    /\ ~destroyed
    /\ handleAppendToDaily
    /\ UNCHANGED keyVars
    /\ UNCHANGED extVars

\* handleSaveAsNote up to its await.
handleSaveAsNote ==
    /\ IF isBlank(content) \/ isLoading
       THEN /\ last' = did("saveAsNote")
            /\ UNCHANGED <<isLoading, submits>>
       ELSE /\ inFlight < MaxSubmits
            /\ isLoading' = TRUE
            /\ submits' = [submits EXCEPT !["save_as_note"] = @ + 1]
            /\ last' = [did("saveAsNote") EXCEPT
                            !.requests = <<"save_as_note">>]
    /\ UNCHANGED <<content, uploadedImages, isDragging, dragCounter,
                   statusMessage, isTauri, destroyed, batches, handles,
                   nDrops, nFiles, nextId>>
    /\ UNCHANGED insVars

\* The save-as-note shortcut with something to save, or the host's
\* save_as_note event, whose listener onDestroy does not remove.
SaveAsNote ==
    /\ ~destroyed \/ isTauri
    /\ ~isBlank(content)
    /\ ~isLoading
    /\ handleSaveAsNote
    /\ UNCHANGED keyVars
    /\ UNCHANGED extVars

\* The try block of handleAppendToDaily / handleSaveAsNote after its await.
SubmitSucceeds(c) ==
    /\ submits[c] > 0
    /\ isTauri
    /\ apply(submitResetResult(State))
    /\ batches' = markStale(batches)
    /\ submits' = [submits EXCEPT ![c] = @ - 1]
    /\ last' = [did("submitSucceeded") EXCEPT !.requests = <<"hide_capture">>]
    /\ UNCHANGED <<isTauri, destroyed, nDrops, nFiles, nextId>>
    /\ UNCHANGED insVars
    /\ UNCHANGED keyVars
    /\ UNCHANGED extVars

SubmitFailsResetting(c) ==
    /\ submits[c] > 0
    /\ apply([submitResetResult(State) EXCEPT !.statusMessage = "Error"])
    /\ batches' = markStale(batches)
    /\ submits' = [submits EXCEPT ![c] = @ - 1]
    /\ last' = did("submitFailed")
    /\ UNCHANGED <<isTauri, destroyed, nDrops, nFiles, nextId>>
    /\ UNCHANGED insVars
    /\ UNCHANGED keyVars
    /\ UNCHANGED extVars

\* The catch block of handleAppendToDaily / handleSaveAsNote.
SubmitFails(c) ==
    /\ submits[c] > 0
    /\ statusMessage' = "Error"
    /\ isLoading' = FALSE
    /\ submits' = [submits EXCEPT ![c] = @ - 1]
    /\ last' = did("submitFailed")
    /\ UNCHANGED <<content, uploadedImages, isDragging, dragCounter, isTauri,
                   destroyed, batches, handles, nDrops, nFiles, nextId>>
    /\ UNCHANGED insVars
    /\ UNCHANGED keyVars
    /\ UNCHANGED extVars

\* handleClose up to its await.
handleClose ==
    /\ apply(submitResetResult(State))
    /\ batches' = markStale(batches)
    /\ last' = [did("close") EXCEPT !.requests = <<"hide_capture">>]
    /\ UNCHANGED <<isTauri, destroyed, submits, nDrops, nFiles, nextId>>
    /\ UNCHANGED insVars

CloseWhenSettled ==
    /\ ~destroyed
    /\ batches = <<>>
    /\ handleClose
    /\ UNCHANGED keyVars
    /\ UNCHANGED extVars

\* Escape.
Close ==
    /\ ~destroyed
    /\ handleClose
    /\ UNCHANGED keyVars
    /\ UNCHANGED extVars

\* onDestroy: the preview URLs of the records are revoked; the list itself,
\* the calls in flight and the save_as_note listener stay.
Destroy ==
    /\ ~destroyed
    /\ destroyed' = TRUE
    /\ handles' = revokeAll(uploadedImages, handles)
    /\ last' = did("destroy")
    /\ UNCHANGED <<content, uploadedImages, isDragging, dragCounter,
                   isLoading, statusMessage, isTauri, batches, submits,
                   nDrops, nFiles, nextId>>
    /\ UNCHANGED insVars
    /\ UNCHANGED keyVars
    /\ UNCHANGED extVars

Next ==
    \/ TypeText
    \/ ClearStatus
    \/ BrowserDrop
    \/ NativeDrop
    \/ \E d \in DOMAIN batches : \E i \in 1..Len(batches[d].entries) :
           EntryResolves(d, i)
    \/ \E d \in DOMAIN batches : \E i \in 1..Len(batches[d].entries) :
           EntryFails(d, i)
    \/ \E k \in 1..Len(uploadedImages) : RemoveImage(uploadedImages[k].id)
    \/ ShowCapture
    \/ InsertCaptureText
    \/ AppendToDaily
    \/ SaveAsNote
    \/ \E c \in Commands : SubmitSucceeds(c)
    \/ \E c \in Commands : SubmitFails(c)
    \/ Close
    \/ Destroy

Spec == Init /\ [][Next]_vars

----------------------------------------------------------------------------
(* Ingestion: drops, their persistence calls, typing, removeImage and the  *)
(* resets of show_capture and close.                                       *)

\* Two drops whose persistence calls are all pending: the batches overlap in
\* time.  Each is a drop on the window or a drop delivered by the host, of
\* image files with paths.
overlapping(kinds, sizes) ==
    [d \in 1..2 |->
        [kind |-> kinds[d],
         entries |-> [i \in 1..sizes[d] |->
                         IF kinds[d] = "browser"
                         THEN browserEntry(d, i, "path")
                         ELSE nativeEntry(d, i, "path")],
         stale |-> FALSE]]

InitOverlap ==
    /\ content \in {<<>>, <<"x">>}
    /\ uploadedImages = <<>>
    /\ isDragging = FALSE
    /\ dragCounter = 0
    /\ isLoading = FALSE
    /\ statusMessage = ""
    /\ isTauri = TRUE
    /\ destroyed = FALSE
    /\ \E kinds \in [1..2 -> {"browser", "native"}],
          sizes \in [1..2 -> 1..MaxEntries] :
         /\ batches = overlapping(kinds, sizes)
         /\ nFiles = sizes[1] + sizes[2]
    /\ handles = <<>>
    /\ submits = [c \in Commands |-> 0]
    /\ nDrops = 2
    /\ nextId = 1
    /\ last = did("drop")
    /\ buf = <<>>
    /\ pos = 0
    /\ todo = <<>>
    /\ orig = [content |-> <<>>, position |-> 0, markdowns |-> <<>>]
    /\ appSettings = defaultSettings
    /\ keydown = noKeydown
    /\ settingsLoaded = FALSE
    /\ fileName = <<>>
    /\ accepted = <<>>
    /\ editorSettings = editorDefaults
    /\ shortcutEvent = noShortcutEvent

NextOverlap ==
    \/ \E d \in DOMAIN batches : \E i \in 1..Len(batches[d].entries) :
           EntryResolves(d, i)
    \/ \E d \in DOMAIN batches : \E i \in 1..Len(batches[d].entries) :
           EntryFails(d, i)

SpecOverlap == InitOverlap /\ [][NextOverlap]_vars

NextIngest ==
    \/ TypeText
    \/ BrowserDrop
    \/ NativeDrop
    \/ \E d \in DOMAIN batches : \E i \in 1..Len(batches[d].entries) :
           EntryResolves(d, i)
    \/ \E d \in DOMAIN batches : \E i \in 1..Len(batches[d].entries) :
           EntryFails(d, i)
    \/ \E k \in 1..Len(uploadedImages) : RemoveImage(uploadedImages[k].id)
    \/ ShowCapture
    \/ Close

SpecIngest == Init /\ [][NextIngest]_vars

----------------------------------------------------------------------------
(* The resets alone, from any window the drops can have filled.            *)

\* Records as single-file drops leave them: record k is the file of drop k,
\* resolved k-th, dropped on the window (blob preview) or delivered by the
\* host (asset preview).
imageLists ==
    UNION {{[k \in 1..n |->
               [id |-> k, file |-> <<k, 1>>, markdown |-> markdownOf(<<k, 1>>),
                preview |-> pv[k]]] : pv \in [1..n -> {"blob", "asset"}]}
           : n \in 0..MaxEntries}

blobIds(imgs) == {imgs[k].id : k \in {j \in 1..Len(imgs) : imgs[j].preview = "blob"}}

InitReset ==
    /\ isTauri = TRUE
    /\ destroyed = FALSE
    /\ uploadedImages \in imageLists
    /\ \E typed \in {<<>>, <<"x">>} :
         content = appendMarkdowns(IF typed = <<>> THEN typed
                                   ELSE typed \o <<NL>>,
                                   markdowns(uploadedImages))
    /\ handles = [k \in blobIds(uploadedImages) |-> 0]
    /\ \E drag \in {<<FALSE, 0>>, <<TRUE, 0>>, <<TRUE, 1>>} :
         isDragging = drag[1] /\ dragCounter = drag[2]
    /\ isLoading = FALSE
    /\ statusMessage \in {"", "Error"}
    /\ batches = <<>>
    /\ submits = [c \in Commands |-> 0]
    /\ nDrops = Len(uploadedImages)
    /\ nFiles = Len(uploadedImages)
    /\ nextId = Len(uploadedImages) + 1
    /\ last = did("mount")
    /\ buf = <<>>
    /\ pos = 0
    /\ todo = <<>>
    /\ orig = [content |-> <<>>, position |-> 0, markdowns |-> <<>>]
    /\ appSettings = defaultSettings
    /\ keydown = noKeydown
    /\ settingsLoaded = FALSE
    /\ fileName = <<>>
    /\ accepted = <<>>
    /\ editorSettings = editorDefaults
    /\ shortcutEvent = noShortcutEvent

NextReset ==
    \/ TypeText
    \/ ClearStatus
    \/ \E k \in 1..Len(uploadedImages) : RemoveImage(uploadedImages[k].id)
    \/ ShowCapture
    \/ InsertCaptureText
    \/ AppendToDaily
    \/ SaveAsNote
    \/ \E c \in Commands : SubmitSucceeds(c)
    \/ \E c \in Commands : SubmitFails(c)
    \/ Close

SpecReset == InitReset /\ [][NextReset]_vars

----------------------------------------------------------------------------
(* removeImage alone, called with any id, on any window the drops can have *)
(* filled.                                                                 *)

\* The ids removeImage is called with: those of the records and others.
Ids == 0..(MaxEntries + 1)

\* A call of removeImage(id); again says that the call before it was
\* removeImage with the same id.
RemoveImageCall(id) ==
    /\ apply(removeImage(State, id))
    /\ last' = [did("removeImage") EXCEPT
                    !.d = id,
                    !.again = (last.op = "removeImage" /\ last.d = id)]
    /\ UNCHANGED <<isTauri, destroyed, batches, submits, nDrops, nFiles,
                   nextId>>
    /\ UNCHANGED insVars
    /\ UNCHANGED keyVars
    /\ UNCHANGED extVars

NextRemove ==
    \/ TypeText
    \/ \E id \in Ids : RemoveImageCall(id)

SpecRemove == InitReset /\ [][NextRemove]_vars

----------------------------------------------------------------------------
(* Drag tracking: the document's capturing listeners, the on:drag*         *)
(* handlers of the container and of what is nested in it, and the host's   *)
(* drag-drop events, with the drops and the resets.  The persistence calls *)
(* of the drops stay pending: their completion touches no drag state.      *)

Drag == [isDragging |-> isDragging, dragCounter |-> dragCounter]

\* How many elements with on:dragenter / on:dragover an event bubbles
\* through: none for a target outside the container, four for the text area.
Depths == 0..4

globalDragEnter(s, isFileDrag) ==
    IF ~isFileDrag THEN s
    ELSE [isDragging |-> TRUE,
          dragCounter |-> IF s.dragCounter > 1 THEN s.dragCounter ELSE 1]

handleDragEnter(s, isFileDrag) ==
    IF ~isFileDrag THEN s
    ELSE [isDragging |-> s.isDragging \/ s.dragCounter + 1 = 1,
          dragCounter |-> s.dragCounter + 1]

handleDragOver(s, isFileDrag) ==
    IF isFileDrag THEN [s EXCEPT !.isDragging = TRUE] ELSE s

globalDragLeave(s, target) ==
    IF target = "documentElement"
    THEN [isDragging |-> FALSE, dragCounter |-> 0]
    ELSE s

handleDragLeaveUnclamped(s, isLeaving) ==
    IF ~isLeaving THEN s
    ELSE IF s.dragCounter - 1 <= 0
    THEN [isDragging |-> FALSE, dragCounter |-> s.dragCounter - 1]
    ELSE [s EXCEPT !.dragCounter = s.dragCounter - 1]

handleDragLeave(s, isLeaving) ==
    IF ~isLeaving THEN s
    ELSE IF s.dragCounter - 1 <= 0
    THEN [isDragging |-> FALSE, dragCounter |-> 0]
    ELSE [s EXCEPT !.dragCounter = s.dragCounter - 1]

\* handleDragEnter / handleDragOver on each of the n elements the event
\* bubbles through.
RECURSIVE bubbleDragEnter(_, _, _)
bubbleDragEnter(s, isFileDrag, n) ==
    IF n = 0 THEN s
    ELSE bubbleDragEnter(handleDragEnter(s, isFileDrag), isFileDrag, n - 1)

RECURSIVE bubbleDragOver(_, _, _)
bubbleDragOver(s, isFileDrag, n) ==
    IF n = 0 THEN s
    ELSE bubbleDragOver(handleDragOver(s, isFileDrag), isFileDrag, n - 1)

dragged(op, s) ==
    /\ isDragging' = s.isDragging
    /\ dragCounter' = s.dragCounter
    /\ last' = op
    /\ UNCHANGED <<content, uploadedImages, isLoading, statusMessage, isTauri,
                   destroyed, batches, handles, submits, nDrops, nFiles,
                   nextId>>
    /\ UNCHANGED insVars
    /\ UNCHANGED keyVars
    /\ UNCHANGED extVars

\* A dragenter event of the document: globalDragEnter while capturing, then
\* handleDragEnter on every element it bubbles through.
BrowserDragEnter ==
    /\ ~destroyed
    /\ \E isFileDrag \in BOOLEAN, n \in Depths :
         LET s == bubbleDragEnter(globalDragEnter(Drag, isFileDrag),
                                 isFileDrag, n)
         IN  /\ s.dragCounter <= MaxNesting
             /\ dragged(did("drag"), s)

\* A dragover event: globalDragOver changes no state, handleDragOver runs on
\* every element the event bubbles through.
BrowserDragOver ==
    /\ ~destroyed
    /\ \E isFileDrag \in BOOLEAN, n \in Depths :
         dragged(did("drag"), bubbleDragOver(Drag, isFileDrag, n))

\* A dragleave event: globalDragLeave while capturing, then handleDragLeave
\* of the container when the target is inside it.  last.d is dragCounter
\* before the event, last.results what the handlers saw.
BrowserDragLeave ==
    /\ ~destroyed
    /\ \E target \in {"documentElement", "inside"}, isLeaving \in BOOLEAN :
         LET g == globalDragLeave(Drag, target)
             s == IF target = "inside" THEN handleDragLeave(g, isLeaving)
                  ELSE g
         IN  dragged([did("dragleave") EXCEPT
                         !.d = dragCounter,
                         !.results = <<target, isLeaving>>], s)

\* handleDragDropEvent for a missing payload and for the payload types enter,
\* over and leave.
NativeDrag ==
    /\ isTauri
    /\ ~destroyed
    /\ \E type \in {"none", "enter", "over", "leave"} :
         dragged(did("drag"),
                 IF type \in {"enter", "over"}
                 THEN [Drag EXCEPT !.isDragging = TRUE]
                 ELSE IF type = "leave"
                 THEN [isDragging |-> FALSE, dragCounter |-> 0]
                 ELSE Drag)

\* globalDrop for a drop whose target is not inside .capture-container:
\* handleDrop is not called.
DropOutside ==
    /\ ~destroyed
    /\ dragged(did("dropOutside"), Drag)

NextDrag ==
    \/ BrowserDragEnter
    \/ BrowserDragOver
    \/ BrowserDragLeave
    \/ NativeDrag
    \/ BrowserDrop
    \/ DropOutside
    \/ NativeDrop
    \/ ShowCapture
    \/ Close

SpecDrag == Init /\ [][NextDrag]_vars

----------------------------------------------------------------------------
(* settings_changed: the merge of a snapshot into appSettings.             *)

\* The values a snapshot can carry for each field; 0 and "" are the falsy
\* ones.
SettingsSpace ==
    [font_size : {0, 15},
     window_brightness : {0, 20},
     save_to_daily_shortcut : {<<>>, <<"Cmd", "Enter">>, <<"Shift", "Enter">>},
     save_as_note_shortcut :
         {<<>>, <<"Cmd", "Shift", "Enter">>, <<"Cmd", "S">>}]

\* event.payload: per field a value, null, or nothing (undefined).  A field
\* without a value is written with the default in values, which nothing
\* reads.
Payloads ==
    {p \in [kind : [Fields -> {"value", "null", "undefined"}],
            values : SettingsSpace] :
        \A f \in Fields :
            p.kind[f] # "value" => p.values[f] = defaultSettings[f]}

settingsChangedOverwriting(settings, newSettings) ==
    [f \in Fields |->
        IF newSettings.kind[f] = "value" THEN newSettings.values[f]
        ELSE defaultSettings[f]]

\* appSettings = {...appSettings, f: newSettings.f ?? appSettings.f, ...}
settingsChanged(settings, newSettings) ==
    [f \in Fields |->
        IF newSettings.kind[f] \in {"null", "undefined"} THEN settings[f]
        ELSE newSettings.values[f]]

\* The listener of settings_changed (registered only under the host runtime,
\* removed by onDestroy); last.results holds the payload.
SettingsChanged ==
    /\ isTauri
    /\ ~destroyed
    /\ \E newSettings \in Payloads :
         /\ appSettings' = settingsChanged(appSettings, newSettings)
         /\ last' = [did("settings_changed") EXCEPT
                         !.results = <<newSettings>>]
    /\ UNCHANGED <<content, uploadedImages, isDragging, dragCounter,
                   isLoading, statusMessage, isTauri, destroyed, batches,
                   handles, submits, nDrops, nFiles, nextId>>
    /\ UNCHANGED insVars
    /\ UNCHANGED <<keydown, settingsLoaded>>
    /\ UNCHANGED extVars

NextSettings == SettingsChanged

SpecSettings == Init /\ [][NextSettings]_vars

\* What the numeric field font_size holds once undefined or null was
\* assigned to it: no number a snapshot carries.
undefinedNumber == 0 - 1
nullNumber == 0 - 2

\* appSettings = { font_size: settings.font_size, ...,
\*                 window_brightness: settings.window_brightness ?? 0, ... }
\* of onMount: a new object, built from the loaded snapshot alone.
loadSettings(settings) ==
    [font_size |->
         IF settings.kind["font_size"] = "value"
         THEN settings.values["font_size"]
         ELSE IF settings.kind["font_size"] = "null" THEN nullNumber
         ELSE undefinedNumber,
     window_brightness |->
         IF settings.kind["window_brightness"] \in {"null", "undefined"}
         THEN 0
         ELSE settings.values["window_brightness"],
     save_to_daily_shortcut |->
         IF settings.kind["save_to_daily_shortcut"] \in {"null", "undefined"}
         THEN <<"Cmd", "Enter">>
         ELSE settings.values["save_to_daily_shortcut"],
     save_as_note_shortcut |->
         IF settings.kind["save_as_note_shortcut"] \in {"null", "undefined"}
         THEN <<"Cmd", "Shift", "Enter">>
         ELSE settings.values["save_as_note_shortcut"]]

\* onMount after await invoke("load_settings"): the call is made once, after
\* the listeners are registered, and its continuation runs whether or not
\* the component still exists.
LoadSettings ==
    /\ isTauri
    /\ ~settingsLoaded
    /\ settingsLoaded' = TRUE
    /\ \E settings \in Payloads :
         /\ appSettings' = loadSettings(settings)
         /\ last' = [did("load_settings") EXCEPT !.results = <<settings>>]
    /\ UNCHANGED <<content, uploadedImages, isDragging, dragCounter,
                   isLoading, statusMessage, isTauri, destroyed, batches,
                   handles, submits, nDrops, nFiles, nextId>>
    /\ UNCHANGED insVars
    /\ UNCHANGED keydown
    /\ UNCHANGED extVars

\* catch (e) { console.error("Failed to load initial settings:", e) }
LoadSettingsFails ==
    /\ isTauri
    /\ ~settingsLoaded
    /\ settingsLoaded' = TRUE
    /\ last' = did("loadSettingsFailed")
    /\ UNCHANGED <<content, uploadedImages, isDragging, dragCounter,
                   isLoading, statusMessage, isTauri, destroyed, batches,
                   handles, submits, nDrops, nFiles, nextId>>
    /\ UNCHANGED insVars
    /\ UNCHANGED <<appSettings, keydown>>
    /\ UNCHANGED extVars

NextLoad ==
    \/ SettingsChanged
    \/ LoadSettings
    \/ LoadSettingsFails

SpecLoad == Init /\ [][NextLoad]_vars

----------------------------------------------------------------------------
(* The keyboard: matchesShortcut, handleKeydown and the handlers it calls. *)

CmdTokens == {"Cmd", "Command"}
CtrlTokens == {"Ctrl", "Control"}
ShiftTokens == {"Shift"}
AltTokens == {"Alt", "Option", "Opt"}
ModifierTokens == CmdTokens \cup CtrlTokens \cup ShiftTokens \cup AltTokens

\* parts.includes(a) || parts.includes(b) ...
includes(parts, tokens) == \E k \in 1..Len(parts) : parts[k] \in tokens

\* String.prototype.toLowerCase on the keys and the name parts of the model
toLowerCase(key) ==
    CASE key = "Enter" -> "enter"
      [] key = "Escape" -> "escape"
      [] key = "S" -> "s"
      [] key = "PNG" -> "png"
      [] key = "ArrowUp" -> "arrowup"
      [] key = "Up" -> "up"
      [] key = "Space" -> "space"
      [] key = "F5" -> "f5"
      [] OTHER -> key

\* parts.find(p => ![modifier tokens].includes(p)); "" stands for undefined
\* too, both being falsy.
keyOf(parts) ==
    LET at == {k \in 1..Len(parts) : parts[k] \notin ModifierTokens}
    IN  IF at = {} THEN ""
        ELSE parts[CHOOSE k \in at : \A j \in at : k <= j]

matchesShortcutIgnoringShift(event, shortcutString) ==
    IF shortcutString = <<>> THEN FALSE
    ELSE LET parts == shortcutString
             hasCmd == includes(parts, CmdTokens)
             hasCtrl == includes(parts, CtrlTokens)
             hasAlt == includes(parts, AltTokens)
             key == keyOf(parts)
         IN  IF key = "" THEN FALSE
             ELSE LET modifiersMatch ==
                          /\ \/ event.metaKey = hasCmd
                             \/ event.ctrlKey = hasCmd
                          /\ event.ctrlKey = hasCtrl
                          /\ event.altKey = hasAlt
                      keyMatches == toLowerCase(event.key) = toLowerCase(key)
                  IN  modifiersMatch /\ keyMatches

matchesShortcutKeyless(event, shortcutString) ==
    IF shortcutString = <<>> THEN FALSE
    ELSE LET parts == shortcutString
             hasCmd == includes(parts, CmdTokens)
             hasCtrl == includes(parts, CtrlTokens)
             hasShift == includes(parts, ShiftTokens)
             hasAlt == includes(parts, AltTokens)
             key == keyOf(parts)
         IN  LET modifiersMatch ==
                     /\ \/ event.metaKey = hasCmd
                        \/ event.ctrlKey = hasCmd
                     /\ event.ctrlKey = hasCtrl
                     /\ event.shiftKey = hasShift
                     /\ event.altKey = hasAlt
                 keyMatches == key = ""
                               \/ toLowerCase(event.key) = toLowerCase(key)
             IN  modifiersMatch /\ keyMatches

matchesShortcut(event, shortcutString) ==
    IF shortcutString = <<>> THEN FALSE
    ELSE LET parts == shortcutString
             hasCmd == includes(parts, CmdTokens)
             hasCtrl == includes(parts, CtrlTokens)
             hasShift == includes(parts, ShiftTokens)
             hasAlt == includes(parts, AltTokens)
             key == keyOf(parts)
         IN  IF key = "" THEN FALSE
             ELSE LET modifiersMatch ==
                          /\ \/ event.metaKey = hasCmd
                             \/ event.ctrlKey = hasCmd
                          /\ event.ctrlKey = hasCtrl
                          /\ event.shiftKey = hasShift
                          /\ event.altKey = hasAlt
                      keyMatches == toLowerCase(event.key) = toLowerCase(key)
                  IN  modifiersMatch /\ keyMatches

\* What handleKeydown does with an event: the results of the matchesShortcut
\* calls it makes and the handlers it calls, both in order.
handleKeydownFallThrough(e, settings) ==
    LET daily == matchesShortcut(e, settings.save_to_daily_shortcut)
        note == matchesShortcut(e, settings.save_as_note_shortcut)
    IN  IF e.metaKey /\ e.key = ","
        THEN [matches |-> <<>>, calls |-> <<"openSettings">>]
        ELSE [matches |-> <<daily, note>>,
              calls |-> (IF daily THEN <<"handleAppendToDaily">> ELSE <<>>)
                        \o (IF note THEN <<"handleSaveAsNote">> ELSE <<>>)
                        \o (IF e.key = "Escape" THEN <<"handleClose">>
                            ELSE <<>>)]

handleKeydownSavingOnEscape(e, settings) ==
    LET daily == matchesShortcut(e, settings.save_to_daily_shortcut)
        note == matchesShortcut(e, settings.save_as_note_shortcut)
    IN  IF e.metaKey /\ e.key = ","
        THEN [matches |-> <<>>, calls |-> <<"openSettings">>]
        ELSE IF daily
        THEN [matches |-> <<TRUE>>, calls |-> <<"handleAppendToDaily">>]
        ELSE IF note
        THEN [matches |-> <<FALSE, TRUE>>, calls |-> <<"handleSaveAsNote">>]
        ELSE IF e.key = "Escape"
        THEN [matches |-> <<FALSE, FALSE>>, calls |-> <<"handleSaveAsNote">>]
        ELSE [matches |-> <<FALSE, FALSE>>, calls |-> <<>>]

handleKeydown(e, settings) ==
    LET daily == matchesShortcut(e, settings.save_to_daily_shortcut)
        note == matchesShortcut(e, settings.save_as_note_shortcut)
    IN  IF e.metaKey /\ e.key = ","
        THEN [matches |-> <<>>, calls |-> <<"openSettings">>]
        ELSE IF daily
        THEN [matches |-> <<TRUE>>, calls |-> <<"handleAppendToDaily">>]
        ELSE IF note
        THEN [matches |-> <<FALSE, TRUE>>, calls |-> <<"handleSaveAsNote">>]
        ELSE IF e.key = "Escape"
        THEN [matches |-> <<FALSE, FALSE>>, calls |-> <<"handleClose">>]
        ELSE [matches |-> <<FALSE, FALSE>>, calls |-> <<>>]

\* The keys and the key events of the model.
Keys == {"Enter", "Escape", ",", "s"}
KeyEvents ==
    [key : Keys, metaKey : BOOLEAN, ctrlKey : BOOLEAN, shiftKey : BOOLEAN,
     altKey : BOOLEAN]

\* The shortcut strings of the model: "", the two defaults, one without Cmd,
\* one of modifiers only, one with a capital letter, one on Escape.
Shortcuts ==
    {<<>>, <<"Cmd", "Enter">>, <<"Cmd", "Shift", "Enter">>,
     <<"Shift", "Enter">>, <<"Cmd", "Shift">>, <<"Cmd", "S">>, <<"Escape">>}

\* A step that calls no handler of the window.
idle(op, requests) ==
    /\ last' = [did(op) EXCEPT !.requests = requests]
    /\ UNCHANGED <<content, uploadedImages, isDragging, dragCounter,
                   isLoading, statusMessage, isTauri, destroyed, batches,
                   handles, submits, nDrops, nFiles, nextId>>
    /\ UNCHANGED insVars

\* on:keydown of the text area (disabled while isLoading): handleKeydown and
\* the handler it calls, up to that handler's await.
Keydown ==
    /\ ~destroyed
    /\ ~isLoading
    /\ \E e \in KeyEvents :
         LET h == handleKeydown(e, appSettings) IN
         /\ keydown' = [handled |-> TRUE,
                        event |-> e,
                        shortcuts |-> <<appSettings.save_to_daily_shortcut,
                                        appSettings.save_as_note_shortcut>>,
                        matches |-> h.matches,
                        calls |-> h.calls]
         /\ IF h.calls = <<>> THEN idle("keydown", <<>>)
            ELSE IF Head(h.calls) = "openSettings"
            THEN idle("openSettings", <<"open_settings">>)
            ELSE IF Head(h.calls) = "handleAppendToDaily"
            THEN handleAppendToDaily
            ELSE IF Head(h.calls) = "handleSaveAsNote"
            THEN handleSaveAsNote
            ELSE handleClose
    /\ UNCHANGED <<appSettings, settingsLoaded>>
    /\ UNCHANGED extVars

\* Windows the keys are pressed in: any configuration of the two shortcuts,
\* and a buffer with some text and the reference of its record, if any.
InitKeys ==
    /\ isTauri = TRUE
    /\ destroyed = FALSE
    /\ uploadedImages \in {l \in imageLists : Len(l) <= 1}
    /\ content = appendMarkdowns(<<"x", NL>>, markdowns(uploadedImages))
    /\ handles = [k \in blobIds(uploadedImages) |-> 0]
    /\ isDragging = FALSE
    /\ dragCounter = 0
    /\ isLoading = FALSE
    /\ statusMessage = ""
    /\ batches = <<>>
    /\ submits = [c \in Commands |-> 0]
    /\ nDrops = Len(uploadedImages)
    /\ nFiles = Len(uploadedImages)
    /\ nextId = Len(uploadedImages) + 1
    /\ last = did("mount")
    /\ buf = <<>>
    /\ pos = 0
    /\ todo = <<>>
    /\ orig = [content |-> <<>>, position |-> 0, markdowns |-> <<>>]
    /\ \E daily \in Shortcuts, note \in Shortcuts :
         appSettings = [defaultSettings EXCEPT
                           !.save_to_daily_shortcut = daily,
                           !.save_as_note_shortcut = note]
    /\ keydown = noKeydown
    /\ settingsLoaded = FALSE
    /\ fileName = <<>>
    /\ accepted = <<>>
    /\ editorSettings = editorDefaults
    /\ shortcutEvent = noShortcutEvent

NextKeys ==
    \/ Keydown
    \/ \E c \in Commands : SubmitSucceeds(c)
    \/ \E c \in Commands : SubmitFails(c)

SpecKeys == InitKeys /\ [][NextKeys]_vars

----------------------------------------------------------------------------
(* insertImages alone, on any buffer, position and batch.                  *)

Symbols == {"x", NL}
References == {<<>>, <<"a">>, <<"b", "c">>}

seqsUpTo(S, n) == UNION {[1..k -> S] : k \in 0..n}

InitInsert ==
    /\ content = <<>>
    /\ uploadedImages = <<>>
    /\ isDragging = FALSE
    /\ dragCounter = 0
    /\ isLoading = FALSE
    /\ statusMessage = ""
    /\ isTauri = TRUE
    /\ destroyed = FALSE
    /\ batches = <<>>
    /\ handles = <<>>
    /\ submits = [c \in Commands |-> 0]
    /\ nDrops = 0
    /\ nFiles = 0
    /\ nextId = 1
    /\ last = did("mount")
    /\ \E c \in seqsUpTo(Symbols, MaxLen), m \in seqsUpTo(References, MaxRefs) :
         \E p \in 0..(Len(c) + 1) :
            orig = [content |-> c, position |-> p, markdowns |-> m]
    /\ buf = orig.content
    /\ pos = orig.position
    /\ todo = orig.markdowns
    /\ appSettings = defaultSettings
    /\ keydown = noKeydown
    /\ settingsLoaded = FALSE
    /\ fileName = <<>>
    /\ accepted = <<>>
    /\ editorSettings = editorDefaults
    /\ shortcutEvent = noShortcutEvent

\* One iteration of validImages.forEach.
InsertNext ==
    /\ todo # <<>>
    /\ LET st == insertOne([content |-> buf, currentPosition |-> pos],
                           Head(todo))
       IN  /\ buf' = st.content
           /\ pos' = st.currentPosition
    /\ todo' = Tail(todo)
    /\ UNCHANGED orig
    /\ UNCHANGED appVars
    /\ UNCHANGED keyVars
    /\ UNCHANGED extVars

SpecInsert == InitInsert /\ [][InsertNext]_vars

\* The insertion position on its own: what handleDrop can find when its
\* continuation runs.  selectionStart of a text area bound to the buffer is
\* an offset of the buffer.
Drops(c) ==
    [textareaRef : BOOLEAN, overTextarea : BOOLEAN, known : BOOLEAN,
     selectionStart : 0..Len(c), relativeY : (0 - 1)..MaxY,
     lineHeight : {1, 2}]

InitPosition ==
    /\ content = <<>>
    /\ uploadedImages = <<>>
    /\ isDragging = FALSE
    /\ dragCounter = 0
    /\ isLoading = FALSE
    /\ statusMessage = ""
    /\ isTauri = TRUE
    /\ destroyed = FALSE
    /\ batches = <<>>
    /\ handles = <<>>
    /\ submits = [c \in Commands |-> 0]
    /\ nDrops = 0
    /\ nFiles = 0
    /\ nextId = 1
    /\ last = did("mount")
    /\ \E c \in seqsUpTo(Symbols, MaxLen) :
         \E at \in Drops(c) :
            orig = [content |-> c, position |-> 0, markdowns |-> <<<<"a">>>>,
                    at |-> at]
    /\ buf = orig.content
    /\ pos = 0
    /\ todo = orig.markdowns
    /\ appSettings = defaultSettings
    /\ keydown = noKeydown
    /\ settingsLoaded = FALSE
    /\ fileName = <<>>
    /\ accepted = <<>>
    /\ editorSettings = editorDefaults
    /\ shortcutEvent = noShortcutEvent

\* if (validImages.length > 0) { insertPosition = ...; forEach(...) }: the
\* position is computed and the references are inserted in one go.
InsertAtPosition ==
    /\ todo # <<>>
    /\ LET p == positionFor(buf, orig.at)
           st == insertImages([content |-> buf, currentPosition |-> p], todo)
       IN  /\ pos' = p
           /\ buf' = st.content
    /\ todo' = <<>>
    /\ UNCHANGED orig
    /\ UNCHANGED appVars
    /\ UNCHANGED keyVars
    /\ UNCHANGED extVars

NextPosition == InsertAtPosition

SpecPosition == InitPosition /\ [][NextPosition]_vars

----------------------------------------------------------------------------
(* The extension check on its own: the three places that decide whether a  *)
(* name is an image, each applied to one name.  A name is the sequence of  *)
(* its pieces: the separators "." and "/" and pieces of letters.           *)

NameSymbols == {".", "/", "png", "PNG", "gif", "txt"}

SupportedExtensions == {"png", "jpg", "jpeg", "webp", "gif"}

\* name.split(".").pop()?.toLowerCase()
extOf(name) ==
    LET last_ == pop(split(name, "."))
    IN  [k \in 1..Len(last_) |-> toLowerCase(last_[k])]

\* ["png", "jpg", "jpeg", "webp", "gif"].includes(ext): ext is one of the
\* five strings, so one piece of letters and nothing else.
includesExt(ext) == Len(ext) = 1 /\ ext[1] \in SupportedExtensions

\* The check of the map callback of handleDrop, on file.name.
handleDropAccepts(name) == includesExt(extOf(name))

\* The filter of handleTauriFileDrop, on the path.
handleTauriFileDropAccepts(path) == includesExt(extOf(path))

isSupportedImage(filename) == includesExt(extOf(filename))

InitAccept ==
    /\ content = <<>>
    /\ uploadedImages = <<>>
    /\ isDragging = FALSE
    /\ dragCounter = 0
    /\ isLoading = FALSE
    /\ statusMessage = ""
    /\ isTauri \in BOOLEAN
    /\ destroyed = FALSE
    /\ batches = <<>>
    /\ handles = <<>>
    /\ submits = [c \in Commands |-> 0]
    /\ nDrops = 0
    /\ nFiles = 0
    /\ nextId = 1
    /\ last = did("mount")
    /\ buf = <<>>
    /\ pos = 0
    /\ todo = <<>>
    /\ orig = [content |-> <<>>, position |-> 0, markdowns |-> <<>>]
    /\ appSettings = defaultSettings
    /\ keydown = noKeydown
    /\ settingsLoaded = FALSE
    /\ fileName \in seqsUpTo(NameSymbols, MaxName)
    /\ accepted = <<>>
    /\ editorSettings = editorDefaults
    /\ shortcutEvent = noShortcutEvent

CheckExtension ==
    /\ accepted = <<>>
    /\ accepted' = <<handleDropAccepts(fileName),
                     handleTauriFileDropAccepts(fileName),
                     isSupportedImage(fileName)>>
    /\ UNCHANGED <<fileName, editorSettings, shortcutEvent>>
    /\ UNCHANGED appVars
    /\ UNCHANGED insVars
    /\ UNCHANGED keyVars

NextAccept == CheckExtension

SpecAccept == InitAccept /\ [][NextAccept]_vars

----------------------------------------------------------------------------
(* The settings editor's shortcut recorder, handleShortcutKeyDown, on its  *)
(* own.  A key event carries both the physical key (code) and the text the *)
(* key produces (key); the recorder reads code, matchesShortcut reads key. *)

\* event.code of the keys of the model.
Codes == {"KeyS", "Digit1", "Enter", "Escape", "ArrowUp", "Space", "F5",
          "Comma", "ShiftLeft", "MetaLeft"}

\* event.key a keyboard gives for a code (US layout).
keyFor(code, shiftKey) ==
    CASE code = "KeyS" -> IF shiftKey THEN "S" ELSE "s"
      [] code = "Digit1" -> IF shiftKey THEN "!" ELSE "1"
      [] code = "ArrowUp" -> "ArrowUp"
      [] code = "Space" -> " "
      [] code = "Comma" -> ","
      [] code = "ShiftLeft" -> "Shift"
      [] code = "MetaLeft" -> "Meta"
      [] OTHER -> code

\* The keydown events the recorder can get.  A modifier key that is held
\* down reports its own modifier.
ShortcutEvents ==
    {e \in [code : Codes, key : Keys \cup {"S", "1", "!", "ArrowUp", " ",
                                           "F5", "Shift", "Meta"},
            metaKey : BOOLEAN, ctrlKey : BOOLEAN, shiftKey : BOOLEAN,
            altKey : BOOLEAN] :
        /\ e.key = keyFor(e.code, e.shiftKey)
        /\ e.code = "ShiftLeft" => e.shiftKey
        /\ e.code = "MetaLeft" => e.metaKey}

\* The fields the recorder writes that the window matches key events against.
ShortcutFields == {"save_to_daily_shortcut", "save_as_note_shortcut"}

\* keyMap[key], and the branches on key.startsWith: "" stands for the return
\* of the last else.
recordedKey(code) ==
    CASE code = "Space" -> "Space"
      [] code = "Escape" -> "Escape"
      [] code = "Enter" -> "Enter"
      [] code = "ArrowUp" -> "Up"
      [] code = "KeyS" -> "S"
      [] code = "Digit1" -> "1"
      [] code = "F5" -> "F5"
      [] OTHER -> ""

\* The modifiers array: Cmd, Ctrl, Shift, Alt, in this order.
modifiersOf(event) ==
    (IF event.metaKey THEN <<"Cmd">> ELSE <<>>)
    \o (IF event.ctrlKey THEN <<"Ctrl">> ELSE <<>>)
    \o (IF event.shiftKey THEN <<"Shift">> ELSE <<>>)
    \o (IF event.altKey THEN <<"Alt">> ELSE <<>>)

\* handleShortcutKeyDown(event, field) as a function of settings: the early
\* returns leave settings alone, else settings[field] is
\* [...modifiers, key].join("+"), here the sequence of the joined parts.
handleShortcutKeyDown(s, event, field) ==
    IF event.key \in {"Control", "Shift", "Alt", "Meta", "Command"} THEN s
    ELSE IF recordedKey(event.code) = "" THEN s
    ELSE IF Len(modifiersOf(event)) = 0 THEN s
    ELSE [s EXCEPT ![field] = modifiersOf(event)
                              \o <<recordedKey(event.code)>>]

\* The recorder stores something for this event.
stores(event) ==
    /\ event.key \notin {"Control", "Shift", "Alt", "Meta", "Command"}
    /\ recordedKey(event.code) # ""
    /\ Len(modifiersOf(event)) > 0

\* The editor with a key pressed in one of its shortcut inputs.
InitRecord ==
    /\ content = <<>>
    /\ uploadedImages = <<>>
    /\ isDragging = FALSE
    /\ dragCounter = 0
    /\ isLoading = FALSE
    /\ statusMessage = ""
    /\ isTauri = TRUE
    /\ destroyed = FALSE
    /\ batches = <<>>
    /\ handles = <<>>
    /\ submits = [c \in Commands |-> 0]
    /\ nDrops = 0
    /\ nFiles = 0
    /\ nextId = 1
    /\ last = did("mount")
    /\ buf = <<>>
    /\ pos = 0
    /\ todo = <<>>
    /\ orig = [content |-> <<>>, position |-> 0, markdowns |-> <<>>]
    /\ appSettings = defaultSettings
    /\ keydown = noKeydown
    /\ settingsLoaded = FALSE
    /\ fileName = <<>>
    /\ accepted = <<>>
    /\ editorSettings = editorDefaults
    /\ \E event \in ShortcutEvents, field \in ShortcutFields :
          shortcutEvent = [handled |-> FALSE, event |-> event,
                           field |-> field, stored |-> FALSE]

\* on:keydown of a shortcut input of the settings editor.
ShortcutKeyDown ==
    /\ ~shortcutEvent.handled
    /\ editorSettings' = handleShortcutKeyDown(editorSettings,
                                               shortcutEvent.event,
                                               shortcutEvent.field)
    /\ shortcutEvent' = [shortcutEvent EXCEPT
                             !.handled = TRUE,
                             !.stored = stores(shortcutEvent.event)]
    /\ UNCHANGED <<fileName, accepted>>
    /\ UNCHANGED appVars
    /\ UNCHANGED insVars
    /\ UNCHANGED keyVars

NextRecord == ShortcutKeyDown

SpecRecord == InitRecord /\ [][NextRecord]_vars

----------------------------------------------------------------------------
(* insert_capture_text with any payload, on any window the drops can have  *)
(* filled, with typing and a submit around it.                             *)

\* The payloads of insert_capture_text: strings (empty, white space only,
\* with and without white space around the text) and what is not a string.
CapturePayloads ==
    {[type |-> "string", text |-> t] :
         t \in {<<>>, <<NL>>, <<"t">>, <<NL, "t", NL>>}}
    \cup {[type |-> "object", text |-> <<>>], noPayload}

NextCapture ==
    \/ TypeText
    \/ \E payload \in CapturePayloads : InsertCaptureTextOf(payload)
    \/ AppendToDaily
    \/ \E c \in Commands : SubmitSucceeds(c)
    \/ \E c \in Commands : SubmitFails(c)

SpecCapture == InitReset /\ [][NextCapture]_vars

----------------------------------------------------------------------------
(* Claims.                                                                 *)

DoneOps == {"batchDone", "nativeBatchDone"}

\* The batches whose continuation runs in this step.
finishing == DOMAIN batches \ DOMAIN batches'

\* C1: when a reset (show_capture, a successful submit, close) ran while a
\* batch's persistence calls were pending, the batch's results are discarded
\* when the calls complete: its continuation changes neither the buffer text
\* nor the image list.
C1_StaleResultsDiscarded ==
    [][\A d \in finishing :
          batches[d].stale => UNCHANGED <<content, uploadedImages>>]_vars

listedIds == {uploadedImages[k].id : k \in 1..Len(uploadedImages)}

pendingIds ==
    UNION {{batches[d].entries[i].id : i \in 1..Len(batches[d].entries)} :
              d \in DOMAIN batches} \ {0}

\* C2: every blob preview handle is released exactly once: never twice, and
\* it is released as soon as its record is neither in the image list nor
\* waiting in a batch to be added to it.
C2_ReleasedExactlyOnce ==
    \A h \in DOMAIN handles :
        /\ handles[h] <= 1
        /\ h \notin (listedIds \cup pendingIds) => handles[h] = 1

\* The records this step appended to the image list.
added ==
    SubSeq(uploadedImages', Len(uploadedImages) + 1, Len(uploadedImages'))

\* Where a symbol stands in a text.
positions(text, symbol) == {k \in 1..Len(text) : text[k] = symbol}

count(results, outcomes) ==
    Cardinality({k \in 1..Len(results) : results[k] \in outcomes})

\* C3: whatever the order in which the persistence calls of a batch complete,
\* its resolved images are appended to the image list in batch order and
\* their references stand in the buffer in batch order.
C3_BatchOrderKept ==
    [][last'.op \in DoneOps =>
          /\ uploadedImages' = uploadedImages \o added
          /\ \A k \in 1..Len(added) :
                /\ added[k].file[1] = last'.d
                /\ positions(content', added[k].markdown[1]) # {}
          /\ \A k, l \in 1..Len(added) :
                k < l =>
                   /\ added[k].file[2] < added[l].file[2]
                   /\ \A a \in positions(content', added[k].markdown[1]),
                         b \in positions(content', added[l].markdown[1]) :
                         a < b]_vars

\* A batch was just added whose second record resolved before its first.
C3_Witness ==
    /\ last.op \in DoneOps
    /\ \E k, l \in 1..Len(uploadedImages) :
          /\ k < l
          /\ uploadedImages[k].file[1] = last.d
          /\ uploadedImages[l].file[1] = last.d
          /\ uploadedImages[k].id > uploadedImages[l].id
          /\ positions(content, uploadedImages[k].markdown[1]) # {}
          /\ positions(content, uploadedImages[l].markdown[1]) # {}

\* C4: a batch adds as many records to the image list as it has entries,
\* less the entries with an unsupported extension, less the entries whose
\* encoding or persistence failed; a drop adds none before its calls are done.
C4_RecordCount ==
    [][/\ last'.op \in DoneOps =>
             Len(uploadedImages') - Len(uploadedImages) =
                Len(last'.results)
                - count(last'.results, {"UnsupportedType"})
                - count(last'.results, {"NoRuntime", "Error"})
       /\ last'.op \in {"drop", "nativeDrop"} =>
             UNCHANGED uploadedImages]_vars

\* A batch just completed with an entry that was dropped and one that was
\* added.
C4_Witness ==
    /\ last.op \in DoneOps
    /\ count(last.results, {"ok"}) > 0
    /\ count(last.results, {"UnsupportedType", "NoRuntime", "Error"}) > 0
    /\ Len(uploadedImages) = count(last.results, {"ok"})

\* C5: a failing entry leaves the others of its batch alone: each entry that
\* resolved has its record in the list and its reference in the buffer, a
\* failing entry has neither, and a batch of failing entries changes neither
\* the buffer nor the list.
C5_FailureIsolated ==
    [][last'.op \in DoneOps =>
          /\ \A k \in 1..Len(last'.results) :
                LET file == <<last'.d, k>>
                    listed == \E j \in 1..Len(uploadedImages') :
                                 uploadedImages'[j].file = file
                    written == positions(content', markdownOf(file)[1]) # {}
                IN  IF last'.results[k] = "ok"
                    THEN listed /\ written
                    ELSE ~listed /\ ~written
          /\ count(last'.results, {"ok"}) = 0 =>
                UNCHANGED <<content, uploadedImages>>]_vars

\* A batch just completed whose first entry failed and whose second entry
\* was added.
C5_Witness ==
    /\ last.op \in DoneOps
    /\ Len(last.results) > 1
    /\ last.results[1] \in {"UnsupportedType", "NoRuntime", "Error"}
    /\ last.results[2] = "ok"
    /\ \E j \in 1..Len(uploadedImages) : uploadedImages[j].file = <<last.d, 2>>

\* insertImages has run to its end on the inputs in orig.
inserted == todo = <<>> /\ orig.markdowns # <<>>

\* The references of a batch, each followed by a line break, in batch order.
RECURSIVE block(_)
block(mds) == IF mds = <<>> THEN <<>> ELSE Head(mds) \o <<NL>> \o block(Tail(mds))

\* C6: at a position at or beyond the end of the buffer, insertImages gives
\* the old buffer, one line break if the old buffer was non-empty and did not
\* end with one, then each reference and a line break, in batch order.
C6_AppendAtEnd ==
    inserted /\ orig.position >= Len(orig.content) =>
        buf = orig.content
              \o (IF orig.content # <<>> /\ orig.content[Len(orig.content)] # NL
                  THEN <<NL>> ELSE <<>>)
              \o block(orig.markdowns)

\* Two references were appended to a buffer that did not end with a line
\* break.
C6_Witness ==
    /\ inserted
    /\ orig.position >= Len(orig.content)
    /\ Len(orig.markdowns) > 1
    /\ orig.content # <<>>
    /\ orig.content[Len(orig.content)] # NL

\* The text before the insertion position.
textBefore == SubSeq(orig.content, 1, orig.position)

atLineStart == textBefore = <<>> \/ textBefore[Len(textBefore)] = NL

\* Where the k-th reference of the batch starts in the result (the offset of
\* its first character) when the batch goes in at orig.position.
RECURSIVE offsetOf(_)
offsetOf(k) ==
    IF k = 1 THEN orig.position + (IF atLineStart THEN 0 ELSE 1)
    ELSE offsetOf(k - 1) + Len(orig.markdowns[k - 1]) + 1

\* C7: at a position before the end of the buffer every reference gets a line
\* of its own: it follows the start of the buffer or a line break and a line
\* break follows it; the text before the position stays, and no line break is
\* put in front when that text is empty or ends with a line break.
C7_OwnLine ==
    inserted /\ orig.position < Len(orig.content) =>
        /\ SubSeq(buf, 1, orig.position) = textBefore
        /\ \A k \in 1..Len(orig.markdowns) :
              LET o == offsetOf(k)
                  n == Len(orig.markdowns[k])
              IN  /\ o = 0 \/ buf[o] = NL
                  /\ SubSeq(buf, o + 1, o + n) = orig.markdowns[k]
                  /\ o + n + 1 <= Len(buf)
                  /\ buf[o + n + 1] = NL
        /\ atLineStart => SubSeq(buf, orig.position + 1,
                                 orig.position + Len(orig.markdowns[1]))
                          = orig.markdowns[1]

\* A reference was inserted in the middle of a line.
C7_Witness ==
    /\ inserted
    /\ orig.position < Len(orig.content)
    /\ orig.position > 0
    /\ ~atLineStart
    /\ orig.markdowns[1] # <<>>

\* C8: a batch inserted at any position of the buffer stands there as one
\* block of consecutive lines, one per reference, with nothing of the old
\* buffer between two of its references.
C8_Contiguous ==
    inserted /\ orig.position <= Len(orig.content) =>
        \E o \in {orig.position, orig.position + 1} :
            /\ o = 0 \/ buf[o] = NL
            /\ o + Len(block(orig.markdowns)) <= Len(buf)
            /\ SubSeq(buf, o + 1, o + Len(block(orig.markdowns)))
                  = block(orig.markdowns)

\* Two references were inserted before the end of a buffer.
C8_Witness ==
    /\ inserted
    /\ Len(orig.markdowns) > 1
    /\ orig.position < Len(orig.content)
    /\ \A k \in 1..Len(orig.markdowns) : orig.markdowns[k] # <<>>

ResetOps == {"show_capture", "submitSucceeded"}

\* C9: show_capture and a successful submit each leave, in the one step they
\* take, the buffer empty, the image list empty and the blob handle of every
\* record that was in the list released.
C9_ResetClearsAll ==
    [][last'.op \in ResetOps =>
          /\ content' = <<>>
          /\ uploadedImages' = <<>>
          /\ \A k \in 1..Len(uploadedImages) :
                uploadedImages[k].preview = "blob" =>
                    handles'[uploadedImages[k].id] >= 1]_vars

\* A submit just succeeded on a window that held a record with a blob handle.
C9_Witness ==
    /\ last.op = "submitSucceeded"
    /\ \E h \in DOMAIN handles : handles[h] = 1
    /\ content = <<>>
    /\ uploadedImages = <<>>

\* C10: a show_capture that follows a show_capture changes nothing: the state
\* stays the empty state the first one left, and no handle is released.
C10_ResetIdempotent ==
    [][last'.op = "show_capture" /\ last'.again =>
          UNCHANGED <<content, uploadedImages, handles, isDragging,
                      dragCounter, isLoading, statusMessage>>]_vars

\* show_capture just ran a second time in a row, on a window that held a
\* record with a blob handle before the first.
C10_Witness ==
    /\ last.op = "show_capture"
    /\ last.again
    /\ \E h \in DOMAIN handles : handles[h] = 1
    /\ content = <<>>
    /\ uploadedImages = <<>>
    /\ statusMessage = ""

\* C11: removeImage with an id that no record of the list has changes neither
\* the list nor the buffer and releases no handle; a second removeImage with
\* the same id changes nothing the first has not changed.
C11_RemoveAbsentIsNoOp ==
    [][last'.op = "removeImage" =>
          /\ last'.d \notin listedIds =>
                UNCHANGED <<content, uploadedImages, handles>>
          /\ last'.again =>
                UNCHANGED <<content, uploadedImages, handles>>]_vars

\* removeImage was just called a second time with the id of a record whose
\* blob handle the first call released.
C11_Witness ==
    /\ last.op = "removeImage"
    /\ last.again
    /\ last.d \in DOMAIN handles
    /\ handles[last.d] = 1
    /\ last.d \notin listedIds

\* What the claim says matchesShortcut returns.
exactMatch(event, shortcutString) ==
    LET key == keyOf(shortcutString) IN
    /\ key # ""
    /\ toLowerCase(event.key) = toLowerCase(key)
    /\ event.shiftKey = includes(shortcutString, ShiftTokens)
    /\ event.altKey = includes(shortcutString, AltTokens)
    /\ event.ctrlKey = includes(shortcutString, CtrlTokens)
    /\ IF includes(shortcutString, CmdTokens)
       THEN event.metaKey \/ event.ctrlKey
       ELSE ~event.metaKey

\* C12: matchesShortcut returns true exactly when the key matches without
\* regard to case, the shift, alt and ctrl flags of the event equal the
\* presence of Shift, Alt and Ctrl in the shortcut, and the meta or the ctrl
\* flag is set when the shortcut names Cmd, the meta flag is not set when it
\* does not: an event with a modifier the shortcut does not name never
\* matches.
C12_ExactModifiers ==
    keydown.handled =>
        \A k \in 1..Len(keydown.matches) :
            keydown.matches[k] = exactMatch(keydown.event, keydown.shortcuts[k])

cmdEnter ==
    [key |-> "Enter", metaKey |-> TRUE, ctrlKey |-> FALSE, shiftKey |-> FALSE,
     altKey |-> FALSE]

cmdShiftEnter == [cmdEnter EXCEPT !.shiftKey = TRUE]

\* C13: the shortcut "Cmd+Enter" matches the event with the meta flag, the
\* key Enter and no other modifier, and does not match that event with the
\* shift flag added.
C13_CmdEnter ==
    keydown.handled /\ keydown.shortcuts[1] = <<"Cmd", "Enter">> =>
        /\ keydown.event = cmdEnter => keydown.matches[1]
        /\ keydown.event = cmdShiftEnter => ~keydown.matches[1]

\* Cmd+Enter was pressed with "Cmd+Enter" as the save-to-daily shortcut, and
\* handleAppendToDaily ran.
C13_Witness ==
    /\ keydown.handled
    /\ keydown.shortcuts[1] = <<"Cmd", "Enter">>
    /\ keydown.event = cmdEnter
    /\ keydown.matches = <<TRUE>>
    /\ last.op = "appendToDaily"

\* A shortcut string with no key: empty, or modifier tokens only.
keyless(shortcutString) == shortcutString = <<>> \/ keyOf(shortcutString) = ""

\* C14: a shortcut that is empty or has modifier tokens only matches no key
\* event, and handleKeydown goes on to the bindings after it: the other
\* shortcut, then Escape.
C14_KeylessNeverMatches ==
    keydown.handled /\ Len(keydown.matches) > 0 =>
        /\ keyless(keydown.shortcuts[1]) =>
              /\ ~keydown.matches[1]
              /\ Len(keydown.matches) = 2
              /\ keydown.matches[2] =>
                    keydown.calls = <<"handleSaveAsNote">>
              /\ ~keydown.matches[2] /\ keydown.event.key = "Escape" =>
                    keydown.calls = <<"handleClose">>
        /\ keyless(keydown.shortcuts[2]) /\ Len(keydown.matches) = 2 =>
              /\ ~keydown.matches[2]
              /\ keydown.event.key = "Escape" =>
                    keydown.calls = <<"handleClose">>

\* Cmd+Shift+Enter was pressed with "Cmd+Shift" as the save-to-daily shortcut:
\* it did not match, and the save-as-note shortcut after it did.
C14_Witness ==
    /\ keydown.handled
    /\ keydown.shortcuts = <<(<<"Cmd", "Shift">>), <<"Cmd", "Shift", "Enter">>>>
    /\ keydown.event = cmdShiftEnter
    /\ keydown.matches = <<FALSE, TRUE>>
    /\ keydown.calls = <<"handleSaveAsNote">>
    /\ last.op = "saveAsNote"

\* C15: dragCounter is never negative, whatever enter, over, leave and drop
\* events the document and the host deliver and whatever resets run between
\* them.
C15_NestingNonNegative == dragCounter >= 0

\* handleDragLeave just ran for a pointer leaving the container while
\* dragCounter was 0.
C15_Witness ==
    /\ last.op = "dragleave"
    /\ last.d = 0
    /\ last.results = <<"inside", TRUE>>
    /\ dragCounter = 0

\* C16: every drop event, of the document or of the host, leaves isDragging
\* false and dragCounter 0 when its handler returns, whether its entries are
\* accepted or not and whether their persistence is pending or not.
C16_IdleAfterDrop ==
    [][BrowserDrop \/ NativeDrop \/ DropOutside =>
          isDragging' = FALSE /\ dragCounter' = 0]_vars

\* C17: settings_changed gives each field for which the snapshot has a value
\* that value, falsy or not, and leaves each field for which it has none
\* (missing or null) as it was; appSettings keeps all its fields.
C17_PartialMerge ==
    [][last'.op = "settings_changed" =>
          LET newSettings == last'.results[1] IN
          /\ DOMAIN appSettings' = Fields
          /\ \A f \in Fields :
                appSettings'[f] = IF newSettings.kind[f] = "value"
                                  THEN newSettings.values[f]
                                  ELSE appSettings[f]]_vars

\* A snapshot was just merged that set the font size to 0 and had no
\* save-to-daily shortcut, which keeps the value an earlier snapshot gave it.
C17_Witness ==
    /\ last.op = "settings_changed"
    /\ last.results[1].kind["font_size"] = "value"
    /\ last.results[1].values["font_size"] = 0
    /\ appSettings.font_size = 0
    /\ last.results[1].kind["save_to_daily_shortcut"] = "undefined"
    /\ appSettings.save_to_daily_shortcut = <<"Shift", "Enter">>

\* C18: a submit that fails sets isLoading back to false, leaves the buffer
\* and the image list as they are, asks for no hide_capture, and a submit
\* attempted right after it on a non-blank buffer is started.
C18_UsableAfterFailure ==
    [][/\ last'.op = "submitFailed" =>
             /\ isLoading' = FALSE
             /\ UNCHANGED <<content, uploadedImages, handles>>
             /\ last'.requests = <<>>
       /\ /\ last.op = "submitFailed"
          /\ last'.op \in {"appendToDaily", "saveAsNote"}
          /\ ~isBlank(content)
          => /\ isLoading'
             /\ last'.requests \in {<<"append_to_daily_note">>,
                                     <<"save_as_note">>}]_vars

\* A submit just failed on a window with text and a record.
C18_Witness ==
    /\ last.op = "submitFailed"
    /\ ~isLoading
    /\ ~isBlank(content)
    /\ uploadedImages # <<>>
    /\ inFlight = 0

KeyOps == {"keydown", "openSettings", "appendToDaily", "saveAsNote", "close"}

\* handleKeydown and the handler it called were the last to run.
keyStep == keydown.handled /\ last.op \in KeyOps

\* C19: a keydown of Escape that matches neither configured shortcut empties
\* the buffer and the image list and asks for hide_capture, and starts
\* neither append_to_daily_note nor save_as_note.
C19_EscapeCloses ==
    /\ keyStep
    /\ keydown.event.key = "Escape"
    /\ \A k \in 1..2 : ~matchesShortcut(keydown.event, keydown.shortcuts[k])
    => /\ keydown.calls = <<"handleClose">>
       /\ content = <<>>
       /\ uploadedImages = <<>>
       /\ last.requests = <<"hide_capture">>
       /\ inFlight = 0
       /\ ~isLoading

\* Escape was just pressed, with the default shortcuts, in a window that held
\* a record with a blob preview.
C19_Witness ==
    /\ keyStep
    /\ keydown.event.key = "Escape"
    /\ keydown.shortcuts = <<defaultSettings.save_to_daily_shortcut,
                             defaultSettings.save_as_note_shortcut>>
    /\ last.op = "close"
    /\ content = <<>>
    /\ uploadedImages = <<>>
    /\ \E h \in DOMAIN handles : handles[h] = 1

\* C20: with the default shortcuts Cmd+Enter calls handleAppendToDaily only
\* and Cmd+Shift+Enter calls handleSaveAsNote only; with any shortcuts, one
\* keydown calls at most one of openSettings, handleAppendToDaily,
\* handleSaveAsNote and handleClose, and asks the host for at most one
\* command.
C20_OneActionPerKey ==
    keyStep =>
        /\ Len(keydown.calls) <= 1
        /\ Len(last.requests) <= 1
        /\ keydown.shortcuts = <<defaultSettings.save_to_daily_shortcut,
                                 defaultSettings.save_as_note_shortcut>> =>
              /\ keydown.event = cmdEnter =>
                    /\ keydown.calls = <<"handleAppendToDaily">>
                    /\ last.op = "appendToDaily"
                    /\ last.requests \in {<<>>, <<"append_to_daily_note">>}
                    /\ submits["save_as_note"] = 0
              /\ keydown.event = cmdShiftEnter =>
                    /\ keydown.calls = <<"handleSaveAsNote">>
                    /\ last.op = "saveAsNote"
                    /\ last.requests \in {<<>>, <<"save_as_note">>}
                    /\ submits["append_to_daily_note"] = 0

\* Cmd+Shift+Enter was just pressed with the default shortcuts and started
\* save_as_note.
C20_Witness ==
    /\ keyStep
    /\ keydown.shortcuts = <<defaultSettings.save_to_daily_shortcut,
                             defaultSettings.save_as_note_shortcut>>
    /\ keydown.event = cmdShiftEnter
    /\ last.requests = <<"save_as_note">>
    /\ submits["save_as_note"] = 1

\* C21: a dragleave of the document whose target is the document root, and a
\* dragleave inside the container whose pointer is outside the container's
\* bounding box, each leave dragCounter 0 and isDragging false, whatever
\* dragCounter was before.
C21_LeaveForcesIdle ==
    /\ last.op = "dragleave"
    /\ \/ last.results[1] = "documentElement"
       \/ last.results = <<"inside", TRUE>>
    => dragCounter = 0 /\ ~isDragging

\* C22: isDragging turns true only in a step that takes dragCounter from 0
\* to at least 1; no step turns it true and leaves dragCounter 0, and a
\* dragenter with dragCounter >= 1 changes the counter only.
C22_EntersOnFirstIncrement ==
    [][~isDragging /\ isDragging' => dragCounter = 0 /\ dragCounter' >= 1]_vars

\* C23: the drop events of the document and the drop events of the host never
\* both feed ingestion in one run: no batch of handleDrop and batch of
\* handleTauriFileDrop are in flight together.
C23_OneStreamAttached ==
    ~ \E d1 \in DOMAIN batches, d2 \in DOMAIN batches :
          /\ batches[d1].kind = "browser"
          /\ batches[d2].kind = "native"

\* C24: after the listener of show_capture, after the reset of a successful
\* submit and after handleClose the text, the image list, isDragging,
\* dragCounter, isLoading and statusMessage are those of a window just
\* constructed.
C24_ResetEqualsFresh ==
    [][last'.op \in {"show_capture", "submitSucceeded", "close"} =>
          /\ content' = <<>>
          /\ uploadedImages' = <<>>
          /\ isDragging' = FALSE
          /\ dragCounter' = 0
          /\ isLoading' = FALSE
          /\ statusMessage' = ""]_vars

\* The extension of a name as the specification has it: what follows the
\* last "." of the part after the last "/", and none when that part has no
\* ".".
baseName(name) == pop(split(name, "/"))

hasExtension(name) == \E k \in 1..Len(baseName(name)) : baseName(name)[k] = "."

extensionOf(name) == pop(split(baseName(name), "."))

acceptable(name) ==
    /\ hasExtension(name)
    /\ Len(extensionOf(name)) = 1
    /\ toLowerCase(extensionOf(name)[1]) \in SupportedExtensions

\* C25: handleDrop, handleTauriFileDrop and isSupportedImage each accept a
\* name exactly when it has an extension and that extension, lowercased, is
\* one of png, jpg, jpeg, webp, gif; a name without "." is not accepted.
C25_AcceptedIffExtension ==
    accepted # <<>> =>
        \A k \in 1..3 : accepted[k] = acceptable(fileName)

\* C26: in handleDrop an entry with a filesystem path is given to save_image
\* and never to save_image_from_bytes; save_image_from_bytes is called only
\* for an entry without a path, under the host runtime; an entry without a
\* path and without the runtime fails with no persistence call.
C26_ResolutionOrder ==
    \A d \in DOMAIN batches :
        batches[d].kind = "browser" =>
            \A k \in 1..Len(batches[d].entries) :
                LET e == batches[d].entries[k] IN
                /\ e.src = "path" => e.call = "save_image"
                /\ e.call = "save_image_from_bytes" =>
                       e.src = "bytes" /\ isTauri
                /\ e.src = "bytes" /\ isTauri =>
                       e.call = "save_image_from_bytes"
                /\ e.src = "bytes" /\ ~isTauri =>
                       e.call = "none" /\ e.st = "NoRuntime"

\* One drop of a file with a path and a file without one, without the host
\* runtime: the first is with save_image, the second has failed.
C26_Witness ==
    /\ ~isTauri
    /\ \E d \in DOMAIN batches :
          /\ batches[d].kind = "browser"
          /\ Len(batches[d].entries) = 2
          /\ batches[d].entries[1].src = "path"
          /\ batches[d].entries[1].st = "pending"
          /\ batches[d].entries[1].call = "save_image"
          /\ batches[d].entries[2].src = "bytes"
          /\ batches[d].entries[2].st = "NoRuntime"
          /\ batches[d].entries[2].call = "none"

\* C27: the record of an entry resolved from its bytes has a blob preview,
\* and the record of an entry resolved from its filesystem path, in
\* handleDrop as in handleTauriFileDrop, has a preview that is no blob and
\* needs no release.
C27_PreviewBySource ==
    \A d \in DOMAIN batches :
        \A k \in 1..Len(batches[d].entries) :
            LET e == batches[d].entries[k] IN
            isOk(e) =>
                /\ imageOf(batches[d].kind, e).preview =
                       IF e.src = "path" THEN "asset" ELSE "blob"
                /\ e.src = "path" => e.id \notin DOMAIN handles

\* The line estimate as the specification has it: the lengths plus one of
\* the first floor(relativeY / lineHeight) lines of the buffer.
RECURSIVE firstLines(_, _)
firstLines(c, n) ==
    IF n <= 0 \/ c = <<>> THEN 0
    ELSE LET at == {k \in 1..Len(c) : c[k] = NL} IN
         IF at = {} THEN Len(c) + 1
         ELSE LET k == CHOOSE i \in at : \A j \in at : i <= j
              IN  k + firstLines(SubSeq(c, k + 1, Len(c)), n - 1)

\* C28: the position at which handleDrop inserts is an offset of the buffer
\* as it is then, 0 <= p <= length: selectionStart when the drop is over the
\* text area and selectionStart is a number, the line estimate clamped to
\* the length when it is not, and the length when the drop is not over the
\* text area or there is no text area.
C28_ValidPosition ==
    todo = <<>> /\ orig.markdowns # <<>> =>
        LET c == orig.content
            at == orig.at
        IN  /\ 0 <= pos /\ pos <= Len(c)
            /\ pos = IF ~at.textareaRef \/ ~at.overTextarea THEN Len(c)
                     ELSE IF at.known THEN at.selectionStart
                     ELSE min(firstLines(c, at.relativeY \div at.lineHeight),
                              Len(c))
            /\ Len(buf) > Len(c)

\* The references were inserted for a drop over the text area whose caret is
\* unknown, on a buffer of two lines, estimated on the second line.
C28_Witness ==
    /\ todo = <<>>
    /\ orig.content = <<"x", NL>>
    /\ orig.at.textareaRef /\ orig.at.overTextarea /\ ~orig.at.known
    /\ orig.at.relativeY \div orig.at.lineHeight = 1
    /\ pos = 2

\* C29: the continuation of the initial load_settings merges the snapshot as
\* settings_changed does: a field for which the snapshot has a value gets it,
\* and a field for which it has none keeps the value appSettings held.
C29_LoadMerges ==
    [][last'.op = "load_settings" =>
          LET settings == last'.results[1] IN
          \A f \in Fields :
              appSettings'[f] = IF settings.kind[f] = "value"
                                THEN settings.values[f]
                                ELSE appSettings[f]]_vars

\* A persistence call of some drop batch is pending.
pendingBatch ==
    \E d \in DOMAIN batches :
        \E k \in 1..Len(batches[d].entries) :
            batches[d].entries[k].st = "pending"

\* C30: while a persistence call of a drop batch is pending, isLoading is
\* not set by the ingestion, and a further drop (of the document or of the
\* host), drag events, a keydown of the text area, the submit and close
\* shortcuts, removeImage of every listed record and show_capture can each
\* run.
C30_ResponsiveWhilePending ==
    pendingBatch /\ ~destroyed =>
        /\ ~isLoading
        /\ ENABLED BrowserDrop
        /\ ENABLED BrowserDragEnter
        /\ ENABLED BrowserDragOver
        /\ ENABLED BrowserDragLeave
        /\ ENABLED Keydown
        /\ ENABLED AppendToDaily
        /\ ~isBlank(content) => ENABLED SaveAsNote
        /\ ENABLED Close
        /\ isTauri => ENABLED ShowCapture /\ ENABLED NativeDrop
        /\ \A k \in 1..Len(uploadedImages) :
               ENABLED RemoveImage(uploadedImages[k].id)

\* Text was just typed while a call of a batch is pending and the window
\* lists the record of an earlier batch.
C30_Witness ==
    /\ pendingBatch
    /\ ~destroyed
    /\ last.op = "input"
    /\ uploadedImages # <<>>
    /\ ~isBlank(content)
    /\ ~isLoading

\* C31: at most one call of append_to_daily_note or save_as_note is in
\* flight at any time, whatever show_capture events and closes are handled
\* while one is pending.
C31_OneSubmitInFlight == inFlight <= 1

\* The references the continuation of a batch has just inserted, when it was
\* the last to run: those of the entries that resolved.
justInserted ==
    IF last.op \in DoneOps
    THEN {markdownOf(<<last.d, i>>)[1] :
              i \in {j \in 1..Len(last.results) : last.results[j] = "ok"}}
    ELSE {}

\* C32: the reset of a successful submit clears no reference that was put
\* into the buffer after the call was made: a reference a batch inserted in
\* the step just before, while the call was in flight, is not part of the
\* text the call was given and is not in the buffer the reset empties.
C32_ClearsOnlyWhatWasSent ==
    [][last'.op = "submitSucceeded" =>
          \A k \in 1..Len(content) : content[k] \notin justInserted]_vars

\* The references a batch can put into the buffer.
refsOf(d) == {markdownOf(<<d, i>>)[1] : i \in 1..(MaxEntries + 1)}

\* Between two references of batch d in the text there are only references
\* of batch d and line breaks.
contiguousIn(text, d) ==
    LET own == refsOf(d)
        at == {k \in 1..Len(text) : text[k] \in own}
    IN  \A r \in 1..Len(text) :
            (\E p \in at : p < r) /\ (\E q \in at : r < q) =>
                text[r] \in own \cup {NL}

\* C33 as claimed: once two overlapping batches have both been inserted, the
\* references of each are contiguous in the buffer: no reference of one
\* stands between two references of the other.
C33_BatchesStayContiguous ==
    batches = <<>> => \A d \in 1..2 : contiguousIn(content, d)

\* C33 as amended: the continuation of a batch inserts all its references in
\* one step, and right after that step they are contiguous in the buffer,
\* whatever other batches are in flight or already inserted.
C33_AtomicInsertion ==
    [][last'.op \in DoneOps =>
          /\ contiguousIn(content', last'.d)
          /\ \A i \in 1..Len(last'.results) :
                last'.results[i] = "ok" <=>
                    positions(content', markdownOf(<<last'.d, i>>)[1]) # {}
          /\ \A d \in DOMAIN batches' :
                \A k \in 1..Len(content') : content'[k] \notin refsOf(d)]_vars

\* A batch of two was just inserted at the start of a buffer with text while
\* the other batch still has a call pending.
C33_Witness ==
    /\ last.op \in DoneOps
    /\ count(last.results, {"ok"}) = 2
    /\ batches # <<>>
    /\ content[1] \in refsOf(last.d)
    /\ content[Len(content)] = "x"

\* A text without its line breaks.
RECURSIVE withoutNL(_)
withoutNL(s) ==
    IF s = <<>> THEN <<>>
    ELSE (IF Head(s) = NL THEN <<>> ELSE <<Head(s)>>) \o withoutNL(Tail(s))

\* The references of a batch one after the other, in batch order.
RECURSIVE flat(_)
flat(mds) == IF mds = <<>> THEN <<>> ELSE Head(mds) \o flat(Tail(mds))

\* C34: insertImages only adds text: the result is before + inserted + after,
\* where before + after is the original buffer and inserted holds the
\* references of the batch, in batch order, and line breaks, nothing else.
C34_OnlyAddsText ==
    inserted =>
        \E k \in 0..Len(orig.content) :
            LET n == Len(buf) - Len(orig.content) IN
            /\ n >= 0
            /\ SubSeq(buf, 1, k) = SubSeq(orig.content, 1, k)
            /\ SubSeq(buf, k + n + 1, Len(buf))
                   = SubSeq(orig.content, k + 1, Len(orig.content))
            /\ withoutNL(SubSeq(buf, k + 1, k + n)) = flat(orig.markdowns)

\* Two references went in between two characters of a line.
C34_Witness ==
    /\ inserted
    /\ Len(orig.markdowns) > 1
    /\ orig.position > 0
    /\ orig.position < Len(orig.content)
    /\ orig.content[orig.position] = "x"
    /\ orig.content[orig.position + 1] = "x"
    /\ Len(buf) > Len(orig.content)

\* C35: removeImage(id) for an id that a record of the list has removes that
\* record and no other, releases the handle of that record and no other,
\* leaves the buffer as it is (the reference of the removed image included)
\* and keeps the remaining records in their order.
C35_RemovesOnlyThatRecord ==
    [][last'.op = "removeImage"
         /\ (\E k \in 1..Len(uploadedImages) : uploadedImages[k].id = last'.d) =>
             LET k == CHOOSE j \in 1..Len(uploadedImages) :
                          uploadedImages[j].id = last'.d
             IN  /\ content' = content
                 /\ uploadedImages' =
                        SubSeq(uploadedImages, 1, k - 1)
                        \o SubSeq(uploadedImages, k + 1, Len(uploadedImages))
                 /\ DOMAIN handles' = DOMAIN handles
                 /\ \A h \in DOMAIN handles :
                        handles'[h] =
                            handles[h] + (IF h = last'.d THEN 1 ELSE 0)]_vars

\* The first of two dropped images was removed: its handle is released, the
\* other's is not, and its reference is still in the buffer.
C35_Witness ==
    /\ last.op = "removeImage"
    /\ last.d \in DOMAIN handles
    /\ handles[last.d] = 1
    /\ \E h \in DOMAIN handles : handles[h] = 0
    /\ Len(uploadedImages) = 1
    /\ uploadedImages[1].id > last.d
    /\ positions(content, markdownOf(<<last.d, 1>>)[1]) # {}

\* The references of the persisted entries of batch d, in batch order.
persistedRefs(d, results) ==
    LET ok == SelectSeq([i \in 1..Len(results) |-> <<i, results[i]>>],
                        LAMBDA r : r[2] = "ok")
    IN  [k \in 1..Len(ok) |-> markdownOf(<<d, ok[k][1]>>)]

C37_RecorderMatcherRoundTrip ==
    shortcutEvent.handled /\ shortcutEvent.stored =>
        matchesShortcut(shortcutEvent.event,
                        editorSettings[shortcutEvent.field])

\* C38: insert_capture_text with a string payload that is not blank makes the
\* payload the whole buffer text; with a blank payload or one that is no
\* string it changes nothing; in both cases the image list, the preview
\* handles, the drag state and the loading flag stay as they are.
C38_CaptureTextFrame ==
    [][last'.op = "insert_capture_text" =>
          LET payload == last'.payload
              replaces == payload.type = "string" /\ ~isBlank(payload.text)
          IN  /\ replaces => content' = payload.text
              /\ ~replaces => content' = content
                               /\ statusMessage' = statusMessage
              /\ uploadedImages' = uploadedImages
              /\ handles' = handles
              /\ isDragging' = isDragging
              /\ dragCounter' = dragCounter
              /\ isLoading' = isLoading]_vars

\* A captured text with white space around it replaced the buffer of a
\* window that is loading, is being dragged over and lists an image whose
\* handle is live.
C38_Witness ==
    /\ last.op = "insert_capture_text"
    /\ last.payload.text = <<NL, "t", NL>>
    /\ content = <<NL, "t", NL>>
    /\ isLoading
    /\ isDragging
    /\ \E k \in 1..Len(uploadedImages) :
           /\ uploadedImages[k].preview = "blob"
           /\ handles[uploadedImages[k].id] = 0

\* The steps that are a listener registered at mount handling its event.
ListenerOps ==
    {"show_capture", "insert_capture_text", "saveAsNote", "settings_changed",
     "drag", "dragleave", "drop", "dropOutside", "nativeDrop"}

\* C39: onDestroy removes every listener registered at mount (the four drag
\* listeners of the document and the subscriptions to show_capture,
\* insert_capture_text, save_as_note, settings_changed and the host's drag
\* and drop), so that after teardown no event changes the state.
C39_NoEventAfterTeardown ==
    [][destroyed /\ last'.op \in ListenerOps =>
          UNCHANGED <<content, uploadedImages, isDragging, dragCounter,
                      isLoading, statusMessage, batches, submits, handles,
                      appSettings>>]_vars

====
